---------------------------- MODULE Spec2Model ----------------------------
(***************************************************************************)
(* A model of the java-rs front end: the grapheme-indexed Source, the     *)
(* lazy TokenIterator of the lexer, and the two recursive-descent parsers *)
(* (Parser in parser/mod.rs and ParseContext in parser/context.rs).       *)
(*                                                                         *)
(* A source text is a sequence of characters; a character is a string     *)
(* naming one Unicode scalar value ("a", ";", "U+00E9" for e-acute).      *)
(* Option<T> is a sequence of length 0 (None) or 1 (Some).                *)
(***************************************************************************)
EXTENDS Integers, Sequences, FiniteSets, TLC

VARIABLES
  source,            \* Lexer::source: the input text and its grapheme table
  char_index,        \* TokenIterator::char_index
  yielded,           \* the tokens a TokenIterator has returned so far
  ended,             \* the last TokenIterator::next() returned None
  tokens,            \* the token sequence behind the parser's Peekable
  impl,              \* "Parser" (parser/mod.rs) or "ParseContext" (parser/context.rs)
  entry,             \* the rule the caller invoked: "parse" or "qualified_name"
  pos,               \* number of tokens the parser has consumed
  peeked,            \* Peekable holds a pulled, not yet consumed item
  pc,                \* the parser's control point
  caller,            \* the rule qualified_name returns to
  static_import,     \* import_declaration's local static_import
  segments,          \* qualified_name's local qualified_name (segments so far)
  result,            \* the Result qualified_name returned
  package,           \* CompilationUnit::package
  imports,           \* CompilationUnit::imports
  types,             \* CompilationUnit::types
  errors,            \* CompilationUnit::errors
  class_declaration, \* type_declaration's local class_declaration
  iterations,        \* top-level loop iterations completed (history)
  iter_start,        \* pos at the head of the last top-level iteration (history)
  pulled,            \* tokens the Peekable has pulled from its iterator (history)
  consumed,          \* tokens the Peekable has handed to the rules (history)
  text,              \* the &str handed to Source::from
  span_arg,          \* the Span of the last call of Source::resolve_span
  resolved,          \* what that call returned
  other_index,       \* char_index of a second TokenIterator of the same Lexer
  other_yielded,     \* the tokens the second TokenIterator has returned so far
  other_ended,       \* the last next() of the second TokenIterator returned None
  match_offset,      \* the offset of the last call of Source::matches
  match_s,           \* the string of that call
  matched            \* what that call returned

lexvars == << source, char_index, yielded, ended >>
parsevars == << tokens, impl, entry, pos, peeked, pc, caller, static_import,
                segments, result, package, imports, types, errors,
                class_declaration, iterations, iter_start, pulled, consumed >>
queryvars == << text, span_arg, resolved >>
othervars == << other_index, other_yielded, other_ended >>
matchvars == << match_offset, match_s, matched >>
vars == << source, char_index, yielded, ended, tokens, impl, entry, pos, peeked,
           pc, caller, static_import, segments, result, package, imports,
           types, errors, class_declaration, iterations, iter_start, pulled,
           consumed, text, span_arg, resolved, other_index, other_yielded,
           other_ended, match_offset, match_s, matched >>

None == << >>
Some(x) == << x >>

\* Result<T, E>
Ok(v) == [ ok |-> TRUE, value |-> v ]
Err(e) == [ ok |-> FALSE, error |-> e ]
\* Result::unwrap of a Result that is Ok
unwrap(r) == r.value

(***************************************************************************)
(* Bounds of the model.                                                    *)
(***************************************************************************)
\* longest sequence of lexemes an input is built from
MaxTokens == 3
\* longest sequence of extra pieces appended to a word in a lexer input
MaxPieces == 2
\* number of diagnostics after which a run is cut off
MaxErrors == 6
\* longest text handed to Source::from on its own, in scalar values
MaxChars == 3

(***************************************************************************)
(* lexer/token.rs: the fixed tables.                                       *)
(***************************************************************************)
\* a table in which `do` is probed before `double`
KEYWORDS_shortest_first ==
  <<
    "abstract", "assert", "boolean", "break", "byte", "case", "catch", "char",
    "class", "const", "continue", "default", "do", "double", "else", "enum",
    "extends", "finally", "final", "float", "for", "goto", "if", "implements",
    "import", "instanceof", "interface", "int", "long", "native", "new", "package",
    "private", "protected", "public", "return", "short", "static", "strictfp", "super",
    "switch", "synchronized", "this", "throws", "throw", "transient", "try", "void",
    "volatile", "while" >>

\* KEYWORDS of token.rs, in its order
KEYWORDS ==
  <<
    "abstract", "assert", "boolean", "break", "byte", "case", "catch", "char",
    "class", "const", "continue", "default", "double", "do", "else", "enum",
    "extends", "finally", "final", "float", "for", "goto", "if", "implements",
    "import", "instanceof", "interface", "int", "long", "native", "new", "package",
    "private", "protected", "public", "return", "short", "static", "strictfp", "super",
    "switch", "synchronized", "this", "throws", "throw", "transient", "try", "void",
    "volatile", "while" >>

SEPARATORS ==
  <<
    ";", ",", ".", "(", ")", "{", "}", "[", "]" >>

BOOLEAN_VALUES ==
  << "true", "false" >>

Keyword_try_from_str(s) ==
  CASE s = "abstract" -> "Abstract"
    [] s = "boolean" -> "Boolean"
    [] s = "byte" -> "Byte"
    [] s = "break" -> "Break"
    [] s = "class" -> "Class"
    [] s = "case" -> "Case"
    [] s = "catch" -> "Catch"
    [] s = "char" -> "Char"
    [] s = "continue" -> "Continue"
    [] s = "default" -> "Default"
    [] s = "do" -> "Do"
    [] s = "double" -> "Double"
    [] s = "else" -> "Else"
    [] s = "extends" -> "Extends"
    [] s = "final" -> "Final"
    [] s = "finally" -> "Finally"
    [] s = "float" -> "Float"
    [] s = "for" -> "For"
    [] s = "if" -> "If"
    [] s = "implements" -> "Implements"
    [] s = "import" -> "Import"
    [] s = "instanceof" -> "InstanceOf"
    [] s = "int" -> "Int"
    [] s = "interface" -> "Interface"
    [] s = "long" -> "Long"
    [] s = "native" -> "Native"
    [] s = "new" -> "New"
    [] s = "package" -> "Package"
    [] s = "private" -> "Private"
    [] s = "protected" -> "Protected"
    [] s = "public" -> "Public"
    [] s = "return" -> "Return"
    [] s = "short" -> "Short"
    [] s = "static" -> "Static"
    [] s = "super" -> "Super"
    [] s = "switch" -> "Switch"
    [] s = "synchronized" -> "Synchronized"
    [] s = "this" -> "This"
    [] s = "throw" -> "Throw"
    [] s = "throws" -> "Throws"
    [] s = "transient" -> "Transient"
    [] s = "try" -> "Try"
    [] s = "void" -> "Void"
    [] s = "volatile" -> "Volatile"
    [] s = "while" -> "While"
    [] s = "assert" -> "Assert"
    [] s = "const" -> "Const"
    [] s = "enum" -> "Enum"
    [] s = "goto" -> "Goto"
    [] s = "strictfp" -> "Strictfp"
    [] OTHER -> "None"

Separator_try_from_str(s) ==
  CASE s = ";" -> "Semicolon"
    [] s = "," -> "Comma"
    [] s = "." -> "Dot"
    [] s = "(" -> "LeftPar"
    [] s = ")" -> "RightPar"
    [] s = "{" -> "LeftCurly"
    [] s = "}" -> "RightCurly"
    [] s = "[" -> "LeftBracket"
    [] s = "]" -> "RightBracket"
    [] OTHER -> "None"

\* UnicodeSegmentation::graphemes of the words of the tables
WordGraphemes ==
  ("abstract" :> << "a", "b", "s", "t", "r", "a", "c", "t" >>)
  @@ ("assert" :> << "a", "s", "s", "e", "r", "t" >>)
  @@ ("boolean" :> << "b", "o", "o", "l", "e", "a", "n" >>)
  @@ ("break" :> << "b", "r", "e", "a", "k" >>)
  @@ ("byte" :> << "b", "y", "t", "e" >>)
  @@ ("case" :> << "c", "a", "s", "e" >>)
  @@ ("catch" :> << "c", "a", "t", "c", "h" >>)
  @@ ("char" :> << "c", "h", "a", "r" >>)
  @@ ("class" :> << "c", "l", "a", "s", "s" >>)
  @@ ("const" :> << "c", "o", "n", "s", "t" >>)
  @@ ("continue" :> << "c", "o", "n", "t", "i", "n", "u", "e" >>)
  @@ ("default" :> << "d", "e", "f", "a", "u", "l", "t" >>)
  @@ ("double" :> << "d", "o", "u", "b", "l", "e" >>)
  @@ ("do" :> << "d", "o" >>)
  @@ ("else" :> << "e", "l", "s", "e" >>)
  @@ ("enum" :> << "e", "n", "u", "m" >>)
  @@ ("extends" :> << "e", "x", "t", "e", "n", "d", "s" >>)
  @@ ("finally" :> << "f", "i", "n", "a", "l", "l", "y" >>)
  @@ ("final" :> << "f", "i", "n", "a", "l" >>)
  @@ ("float" :> << "f", "l", "o", "a", "t" >>)
  @@ ("for" :> << "f", "o", "r" >>)
  @@ ("goto" :> << "g", "o", "t", "o" >>)
  @@ ("if" :> << "i", "f" >>)
  @@ ("implements" :> << "i", "m", "p", "l", "e", "m", "e", "n", "t", "s" >>)
  @@ ("import" :> << "i", "m", "p", "o", "r", "t" >>)
  @@ ("instanceof" :> << "i", "n", "s", "t", "a", "n", "c", "e", "o", "f" >>)
  @@ ("interface" :> << "i", "n", "t", "e", "r", "f", "a", "c", "e" >>)
  @@ ("int" :> << "i", "n", "t" >>)
  @@ ("long" :> << "l", "o", "n", "g" >>)
  @@ ("native" :> << "n", "a", "t", "i", "v", "e" >>)
  @@ ("new" :> << "n", "e", "w" >>)
  @@ ("package" :> << "p", "a", "c", "k", "a", "g", "e" >>)
  @@ ("private" :> << "p", "r", "i", "v", "a", "t", "e" >>)
  @@ ("protected" :> << "p", "r", "o", "t", "e", "c", "t", "e", "d" >>)
  @@ ("public" :> << "p", "u", "b", "l", "i", "c" >>)
  @@ ("return" :> << "r", "e", "t", "u", "r", "n" >>)
  @@ ("short" :> << "s", "h", "o", "r", "t" >>)
  @@ ("static" :> << "s", "t", "a", "t", "i", "c" >>)
  @@ ("strictfp" :> << "s", "t", "r", "i", "c", "t", "f", "p" >>)
  @@ ("super" :> << "s", "u", "p", "e", "r" >>)
  @@ ("switch" :> << "s", "w", "i", "t", "c", "h" >>)
  @@ ("synchronized" :> << "s", "y", "n", "c", "h", "r", "o", "n", "i", "z", "e", "d" >>)
  @@ ("this" :> << "t", "h", "i", "s" >>)
  @@ ("throws" :> << "t", "h", "r", "o", "w", "s" >>)
  @@ ("throw" :> << "t", "h", "r", "o", "w" >>)
  @@ ("transient" :> << "t", "r", "a", "n", "s", "i", "e", "n", "t" >>)
  @@ ("try" :> << "t", "r", "y" >>)
  @@ ("void" :> << "v", "o", "i", "d" >>)
  @@ ("volatile" :> << "v", "o", "l", "a", "t", "i", "l", "e" >>)
  @@ ("while" :> << "w", "h", "i", "l", "e" >>)
  @@ ("true" :> << "t", "r", "u", "e" >>)
  @@ ("false" :> << "f", "a", "l", "s", "e" >>)

\* the graphemes of a string: a word of the tables, or a single character
SingleGraphemes == [ s \in { SEPARATORS[i] : i \in 1..Len(SEPARATORS) } |-> << s >> ]
\* UnicodeSegmentation::graphemes of the strings handed to Source::matches
\* on its own
ArgumentGraphemes ==
  ("" :> << >>)
  @@ ("a" :> << "a" >>)
  @@ ("b" :> << "b" >>)
  @@ ("aa" :> << "a", "a" >>)
  @@ ("ab" :> << "a", "b" >>)
  @@ ("ba" :> << "b", "a" >>)
  @@ ("bb" :> << "b", "b" >>)
  @@ ("aba" :> << "a", "b", "a" >>)
  @@ ("abab" :> << "a", "b", "a", "b" >>)
Graphemes == WordGraphemes @@ SingleGraphemes @@ ArgumentGraphemes
to_graphemes(s) == Graphemes[s]

(***************************************************************************)
(* Characters.                                                             *)
(***************************************************************************)
Letters == { "a", "b", "c", "d", "e", "f", "g", "h", "i", "j", "k", "l", "m",
             "n", "o", "p", "q", "r", "s", "t", "u", "v", "w", "x", "y", "z",
             "A", "B", "C", "D", "E", "F", "G", "H", "I", "J", "K", "L", "M",
             "N", "O", "P", "Q", "R", "S", "T", "U", "V", "W", "X", "Y", "Z" }
\* alphabetic characters whose UTF-8 encoding takes two bytes
WideLetters == { "U+00E9" }
\* combining marks (Grapheme_Cluster_Break = Extend), two bytes each
CombiningMarks == { "U+0301" }

\* char::len_utf8
len_utf8(c) ==
  IF c \in WideLetters \cup CombiningMarks THEN 2
  ELSE IF c \in { "U+2007", "U+202F" } THEN 3
  ELSE 1

\* char::is_whitespace on the characters of the model (Unicode White_Space)
is_whitespace(c) == c \in { " ", "\t", "\n", "\r", "U+000B", "U+000C", "U+2007", "U+202F" }
is_alphabetic(c) == c \in Letters \cup WideLetters
is_ascii_digit(c) == c \in { "0", "1", "2", "3", "4", "5", "6", "7", "8", "9" }

is_java_whitespace(c) ==
  \/ is_whitespace(c)
  \/ c \in { " ", "\t", "\n", "\r", "U+000C", "U+000B", "U+2007", "U+202F",
             "U+001C", "U+001D", "U+001E", "U+001F" }
is_java_identifier_start(c) == is_alphabetic(c) \/ c = "_" \/ c = "$"
is_java_identifier_part(c) == is_java_identifier_start(c) \/ is_ascii_digit(c)

(***************************************************************************)
(* lexer/source.rs, lexer/span.rs.                                         *)
(***************************************************************************)
Span(start, end) == [ start |-> start, end |-> end ]

RECURSIVE byte_offset(_, _)
byte_offset(s, i) == IF i <= 1 THEN 0 ELSE byte_offset(s, i - 1) + len_utf8(s[i - 1])

\* Grapheme_Cluster_Break = CR, LF or Control
is_control(c) ==
  c \in { "\t", "\n", "\r", "U+000B", "U+000C", "U+001C", "U+001D", "U+001E", "U+001F" }
is_extend(c) == c \in CombiningMarks

\* the rules of extended grapheme clusters that apply to the characters of
\* the model: no boundary between CR and LF (GB3), a boundary after and
\* before every other control (GB4, GB5), none before Extend (GB9)
no_boundary(prev, c) ==
  \/ prev = "\r" /\ c = "\n"
  \/ ~is_control(prev) /\ ~is_control(c) /\ is_extend(c)

\* UnicodeSegmentation::grapheme_indices(s, true): the clusters of s, each
\* with the byte offset of its first character
RECURSIVE grapheme_indices_from(_, _, _)
grapheme_indices_from(s, i, acc) ==
  IF i > Len(s) THEN acc
  ELSE IF i > 1 /\ no_boundary(s[i - 1], s[i])
  THEN grapheme_indices_from(s, i + 1, [ acc EXCEPT ![Len(acc)].g = Append(@, s[i]) ])
  ELSE grapheme_indices_from(s, i + 1, Append(acc, [ off |-> byte_offset(s, i), g |-> << s[i] >> ]))

grapheme_indices(s) == grapheme_indices_from(s, 1, << >>)

\* char::from_str
char_from_str(g) ==
  IF Len(g) = 0 THEN Err("EmptyString")
  ELSE IF Len(g) = 1 THEN Ok(g[1])
  ELSE Err("TooManyChars")

\* the unwrap() of to_grapheme_indices aborts: a cluster is no single char
to_grapheme_indices_panics(s) ==
  \E i \in 1..Len(grapheme_indices(s)) : ~char_from_str(grapheme_indices(s)[i].g).ok

\* one (byte offset, char) pair per grapheme cluster
to_grapheme_indices(s) ==
  LET gs == grapheme_indices(s)
  IN [ i \in 1..Len(gs) |-> [ off |-> gs[i].off, c |-> unwrap(char_from_str(gs[i].g)) ] ]

Source(input) == [ input |-> input, graphemes |-> to_grapheme_indices(input) ]

\* a lookup that clamps an index beyond the table to its last entry
translate_index_clamped(index) ==
  IF index >= 0 /\ index < Len(source.graphemes) THEN Some(source.graphemes[index + 1].off)
  ELSE IF Len(source.graphemes) > 0 THEN Some(source.graphemes[Len(source.graphemes)].off)
  ELSE None

\* Vec::get(index).map(|(i, _)| *i), index zero-based
translate_index(index) ==
  IF index >= 0 /\ index < Len(source.graphemes) THEN Some(source.graphemes[index + 1].off) ELSE None

\* the bytes of the input: byte k (zero-based) belongs to character char_of_byte
byte_len == byte_offset(source.input, Len(source.input) + 1)
is_char_boundary(b) ==
  b = byte_len \/ \E i \in 1..Len(source.graphemes) : source.graphemes[i].off = b

\* str::get(start..=end): the characters lying in bytes start..end, None unless
\* start and end + 1 are character boundaries
str_get_inclusive(start, end) ==
  IF start <= end + 1 /\ is_char_boundary(start) /\ is_char_boundary(end + 1)
  THEN LET first == CHOOSE i \in 1..(Len(source.graphemes) + 1) :
                        i = Len(source.graphemes) + 1 \/ source.graphemes[i].off >= start
           n == Cardinality({ i \in 1..Len(source.graphemes) :
                              start <= source.graphemes[i].off /\ source.graphemes[i].off <= end })
       IN Some(SubSeq(source.graphemes, first, first + n - 1))
  ELSE None

translate_indices(start, end) ==
  LET s == translate_index(start)
      e == translate_index(end - 1)
  IN IF s = None \/ e = None THEN None
     ELSE LET got == str_get_inclusive(s[1], e[1])
          IN IF got = None THEN None
             ELSE Some([ i \in 1..Len(got[1]) |-> got[1][i].c ])

resolve_span(span) == translate_indices(span.start, span.end)

RECURSIVE matches_loop(_, _, _, _)
matches_loop(gs, i, g, j) ==
  IF i > Len(gs) THEN j > Len(g)
  ELSE IF j > Len(g) THEN TRUE
  ELSE IF g[j] = gs[i].c THEN matches_loop(gs, i + 1, g, j + 1)
  ELSE FALSE

\* a comparison that also requires the source to end where the string ends
RECURSIVE matches_to_the_end_loop(_, _, _, _)
matches_to_the_end_loop(gs, i, g, j) ==
  IF i > Len(gs) THEN j > Len(g)
  ELSE IF j > Len(g) THEN FALSE
  ELSE IF g[j] = gs[i].c THEN matches_to_the_end_loop(gs, i + 1, g, j + 1)
  ELSE FALSE

matches_to_the_end(offset, s) ==
  matches_to_the_end_loop(source.graphemes, offset + 1, to_graphemes(s), 1)

matches(offset, s) == matches_loop(source.graphemes, offset + 1, to_graphemes(s), 1)

char_at(index) ==
  IF index >= 0 /\ index < Len(source.graphemes) THEN Some(source.graphemes[index + 1].c) ELSE None

(***************************************************************************)
(* lexer/mod.rs: Lexer and TokenIterator.  Every probe returns the token   *)
(* it found (an Option) and the cursor it leaves.                          *)
(***************************************************************************)
Token(type, kind, span) == [ type |-> type, kind |-> kind, span |-> span ]

\* a character predicate passed as an argument, applied to c
call(f, c) ==
  CASE f = "is_java_whitespace" -> is_java_whitespace(c)
    [] f = "is_java_identifier_part" -> is_java_identifier_part(c)

\* skip(offset).take_while(f).count()
RECURSIVE count_consecutive_matches(_, _)
count_consecutive_matches(offset, f) ==
  IF offset < Len(source.graphemes) /\ call(f, source.graphemes[offset + 1].c)
  THEN 1 + count_consecutive_matches(offset + 1, f)
  ELSE 0

advance_while(idx, f) == idx + count_consecutive_matches(idx, f)

\* a skip that also passes one asterisk
skip_whitespace_and_asterisk(idx) ==
  LET i == advance_while(idx, "is_java_whitespace")
  IN IF i < Len(source.graphemes) /\ source.graphemes[i + 1].c = "*"
     THEN advance_while(i + 1, "is_java_whitespace")
     ELSE i

skip_whitespace(idx) == advance_while(idx, "is_java_whitespace")

\* the first entry of a table that matches at the cursor, 0 if none does
RECURSIVE first_match_from(_, _, _)
first_match_from(idx, table, i) ==
  IF i > Len(table) THEN 0
  ELSE IF matches(idx, table[i]) THEN i
  ELSE first_match_from(idx, table, i + 1)

first_match(idx, table) == first_match_from(idx, table, 1)

next_keyword(idx) ==
  LET i == first_match(idx, KEYWORDS)
  IN IF i = 0 THEN [ tok |-> None, idx |-> idx ]
     ELSE LET end == idx + Len(to_graphemes(KEYWORDS[i]))
          IN [ tok |-> Some(Token("Keyword", Keyword_try_from_str(KEYWORDS[i]), Span(idx, end))),
               idx |-> end ]

\* a separator probe that leaves the cursor one grapheme past the separator
next_separator_overshooting(idx) ==
  LET i == first_match(idx, SEPARATORS)
  IN IF i = 0 THEN [ tok |-> None, idx |-> idx ]
     ELSE LET end == idx + Len(to_graphemes(SEPARATORS[i]))
          IN [ tok |-> Some(Token("Separator", Separator_try_from_str(SEPARATORS[i]), Span(idx, end))),
               idx |-> IF end < Len(source.graphemes) THEN end + 1 ELSE end ]

next_separator(idx) ==
  LET i == first_match(idx, SEPARATORS)
  IN IF i = 0 THEN [ tok |-> None, idx |-> idx ]
     ELSE LET end == idx + Len(to_graphemes(SEPARATORS[i]))
          IN [ tok |-> Some(Token("Separator", Separator_try_from_str(SEPARATORS[i]), Span(idx, end))),
               idx |-> end ]

next_boolean_literal(idx) ==
  LET i == first_match(idx, BOOLEAN_VALUES)
  IN IF i = 0 THEN [ tok |-> None, idx |-> idx ]
     ELSE LET end == idx + Len(to_graphemes(BOOLEAN_VALUES[i]))
          IN [ tok |-> Some(Token("Literal", "Boolean", Span(idx, end))), idx |-> end ]

\* a scan in which the backslash escapes nothing
RECURSIVE string_scan_no_escape(_, _, _)
string_scan_no_escape(idx, end_index, escaped) ==
  IF ~(idx < Len(source.graphemes)) THEN [ idx |-> idx, end_index |-> end_index ]
  ELSE IF char_at(idx)[1] = "\"" THEN [ idx |-> idx + 1, end_index |-> idx + 1 ]
  ELSE string_scan_no_escape(idx + 1, end_index, FALSE)

\* the while loop of next_string_literal: the cursor and end_index it ends with
RECURSIVE string_scan(_, _, _)
string_scan(idx, end_index, escaped) ==
  IF ~(idx < Len(source.graphemes)) THEN [ idx |-> idx, end_index |-> end_index ]
  ELSE LET c == char_at(idx)[1]
       IN IF escaped THEN string_scan(idx + 1, end_index, FALSE)
          ELSE IF c = "\"" THEN [ idx |-> idx + 1, end_index |-> idx + 1 ]
          ELSE IF c = "\\" THEN string_scan(idx + 1, end_index, TRUE)
          ELSE string_scan(idx + 1, end_index, FALSE)

next_string_literal(idx) ==
  IF char_at(idx) = Some("\"")
  THEN LET r == string_scan(idx + 1, idx + 1, FALSE)
       IN [ tok |-> Some(Token("Literal", "String", Span(idx, r.end_index))), idx |-> r.idx ]
  ELSE [ tok |-> None, idx |-> idx ]

\* a literal probe that moves the cursor on when it finds nothing
next_literal_advancing(idx) ==
  LET s == next_string_literal(idx)
      b == next_boolean_literal(s.idx)
  IN IF s.tok # None THEN s
     ELSE IF b.tok # None THEN b
     ELSE [ tok |-> None, idx |-> b.idx + 1 ]

\* each probe starts at the cursor the probe before it has left
next_literal(idx) ==
  LET s == next_string_literal(idx)
  IN IF s.tok # None THEN s ELSE next_boolean_literal(s.idx)

\* a probe that takes a character that starts no identifier as an identifier
\* of one character
next_identifier_of_anything(idx) ==
  LET c == char_at(idx)
  IN IF c = None THEN [ tok |-> None, idx |-> idx, panic |-> TRUE ]
     ELSE IF is_java_identifier_start(c[1])
     THEN LET end == advance_while(idx, "is_java_identifier_part")
          IN [ tok |-> Some(Token("Ident", "Ident", Span(idx, end))), idx |-> end, panic |-> FALSE ]
     ELSE [ tok |-> Some(Token("Ident", "Ident", Span(idx, idx + 1))), idx |-> idx + 1,
            panic |-> FALSE ]

\* next_identifier aborts when there is no character at the cursor
next_identifier(idx) ==
  LET c == char_at(idx)
  IN IF c = None THEN [ tok |-> None, idx |-> idx, panic |-> TRUE ]
     ELSE IF is_java_identifier_start(c[1])
     THEN LET end == advance_while(idx, "is_java_identifier_part")
          IN [ tok |-> Some(Token("Ident", "Ident", Span(idx, end))), idx |-> end, panic |-> FALSE ]
     ELSE [ tok |-> None, idx |-> idx, panic |-> FALSE ]

\* an iterator that probes for an identifier before it probes for a literal
TokenIterator_next_identifier_first(idx0) ==
  LET idx == skip_whitespace(idx0)
  IN IF idx >= Len(source.graphemes) THEN [ tok |-> None, idx |-> idx, by |-> "end" ]
     ELSE LET k == next_keyword(idx)
          IN IF k.tok # None THEN [ tok |-> k.tok, idx |-> k.idx, by |-> "keyword" ]
             ELSE LET s == next_separator(idx)
                  IN IF s.tok # None THEN [ tok |-> s.tok, idx |-> s.idx, by |-> "separator" ]
                     ELSE LET i == next_identifier(idx)
                          IN IF i.panic THEN [ tok |-> None, idx |-> i.idx, by |-> "panic" ]
                             ELSE IF i.tok # None
                             THEN [ tok |-> i.tok, idx |-> i.idx, by |-> "identifier" ]
                             ELSE LET l == next_literal(idx)
                                  IN IF l.tok # None
                                     THEN [ tok |-> l.tok, idx |-> l.idx, by |-> "literal" ]
                                     ELSE [ tok |-> None, idx |-> l.idx, by |-> "unknown" ]

\* a next() that steps over the grapheme at which it gives up
TokenIterator_next_stepping_over(idx0) ==
  LET idx == skip_whitespace(idx0)
  IN IF idx >= Len(source.graphemes) THEN [ tok |-> None, idx |-> idx, by |-> "end" ]
     ELSE LET k == next_keyword(idx)
              s == next_separator(idx)
              l == next_literal(idx)
              i == next_identifier(idx)
          IN IF k.tok # None THEN [ tok |-> k.tok, idx |-> k.idx, by |-> "keyword" ]
             ELSE IF s.tok # None THEN [ tok |-> s.tok, idx |-> s.idx, by |-> "separator" ]
             ELSE IF l.tok # None THEN [ tok |-> l.tok, idx |-> l.idx, by |-> "literal" ]
             ELSE IF i.panic THEN [ tok |-> None, idx |-> i.idx, by |-> "panic" ]
             ELSE IF i.tok # None THEN [ tok |-> i.tok, idx |-> i.idx, by |-> "identifier" ]
             ELSE [ tok |-> None, idx |-> i.idx + 1, by |-> "unknown" ]

\* TokenIterator::next: the Option<Token> it returns, the cursor it leaves and
\* the probe that decided ("end", "keyword", "separator", "literal",
\* "identifier", "unknown")
TokenIterator_next(idx0) ==
  LET idx == skip_whitespace(idx0)
  IN IF idx >= Len(source.graphemes) THEN [ tok |-> None, idx |-> idx, by |-> "end" ]
     ELSE LET k == next_keyword(idx)
          IN IF k.tok # None THEN [ tok |-> k.tok, idx |-> k.idx, by |-> "keyword" ]
             ELSE LET s == next_separator(k.idx)
                  IN IF s.tok # None THEN [ tok |-> s.tok, idx |-> s.idx, by |-> "separator" ]
                     ELSE LET l == next_literal(s.idx)
                          IN IF l.tok # None THEN [ tok |-> l.tok, idx |-> l.idx, by |-> "literal" ]
                             ELSE LET i == next_identifier(l.idx)
                                  IN IF i.panic THEN [ tok |-> None, idx |-> i.idx, by |-> "panic" ]
                                     ELSE IF i.tok # None
                                     THEN [ tok |-> i.tok, idx |-> i.idx, by |-> "identifier" ]
                                     ELSE [ tok |-> None, idx |-> i.idx, by |-> "unknown" ]

\* the filter of Parser::tokens: comments are dropped
IsNoComment(t) == t.type # "Comment"

(***************************************************************************)
(* parser/error.rs, parser/tree: diagnostics, results and tree nodes.      *)
(***************************************************************************)
UnexpectedToken(expected, found) ==
  [ type |-> "UnexpectedToken", expected |-> expected, found |-> found ]
NotImplemented(span) == [ type |-> "NotImplemented", span |-> span ]

\* Identifier::from(Ident), Identifier::from(Span)
Identifier(span) == [ span |-> span ]

\* a setter that keeps the package it already has
set_package_once(self_package, package_name) ==
  IF self_package = None THEN Some(package_name) ELSE self_package

\* CompilationUnit::set_package: the package field it leaves
set_package(self_package, package_name) == Some(package_name)

ClassDeclaration_new(visibility, modifiers, name) ==
  [ visibility |-> visibility, modifiers |-> modifiers, name |-> name, members |-> << >> ]

\* a classification with the arms (true, false) and (false, true) exchanged
ImportKind_arms_exchanged(is_static, is_on_demand) ==
  CASE is_static /\ is_on_demand -> "StaticOnDemand"
    [] is_static /\ ~is_on_demand -> "OnDemand"
    [] ~is_static /\ is_on_demand -> "StaticSingleType"
    [] ~is_static /\ ~is_on_demand -> "SingleType"

\* the match at the end of import_declaration
ImportKind(is_static, is_on_demand) ==
  CASE is_static /\ is_on_demand -> "StaticOnDemand"
    [] is_static /\ ~is_on_demand -> "StaticSingleType"
    [] ~is_static /\ is_on_demand -> "OnDemand"
    [] ~is_static /\ ~is_on_demand -> "SingleType"

(***************************************************************************)
(* The Peekable token stream.  A rule works on a context                   *)
(* [pos, peeked, errors]: the cursor of the stream and the diagnostics of  *)
(* the CompilationUnit being built.  A pattern of matches! is a set of     *)
(* <<type, kind>> pairs.                                                   *)
(***************************************************************************)
Semicolon == { << "Separator", "Semicolon" >> }
Dot == { << "Separator", "Dot" >> }
LeftCurly == { << "Separator", "LeftCurly" >> }
RightCurly == { << "Separator", "RightCurly" >> }
LeftParen == { << "Separator", "LeftPar" >> }
RightParen == { << "Separator", "RightPar" >> }
AnyIdent == { << "Ident", "Ident" >> }
Arithmetic == { << "Operator", "Arithmetic" >> }
KeywordOf(kinds) == { << "Keyword", k >> : k \in kinds }

is(t, pattern) == << t.type, t.kind >> \in pattern

head(ctx) == IF ctx.pos < Len(tokens) THEN Some(tokens[ctx.pos + 1]) ELSE None

\* the Peekable fills its empty slot from the iterator behind it
pull(ctx) ==
  IF ctx.peeked THEN ctx.pulled
  ELSE IF ctx.pulled < Len(tokens) THEN ctx.pulled + 1
  ELSE ctx.pulled

\* Peekable::peek
peek(ctx) == [ tok |-> head(ctx), ctx |-> [ ctx EXCEPT !.peeked = TRUE, !.pulled = pull(ctx) ] ]

\* Peekable::next
next(ctx) ==
  [ tok |-> head(ctx),
    ctx |-> [ ctx EXCEPT !.pos = IF @ < Len(tokens) THEN @ + 1 ELSE @,
                         !.peeked = FALSE,
                         !.pulled = pull(ctx),
                         !.consumed = @ \o head(ctx) ] ]

\* a next_if that does not put back the item its predicate rejects
next_if_dropping(ctx, pattern) ==
  IF ctx.pos < Len(tokens) /\ is(tokens[ctx.pos + 1], pattern)
  THEN [ tok |-> Some(tokens[ctx.pos + 1]),
         ctx |-> [ ctx EXCEPT !.pos = @ + 1,
                              !.peeked = FALSE,
                              !.pulled = pull(ctx),
                              !.consumed = Append(@, tokens[ctx.pos + 1]) ] ]
  ELSE [ tok |-> None,
         ctx |-> [ ctx EXCEPT !.pos = IF @ < Len(tokens) THEN @ + 1 ELSE @,
                              !.peeked = FALSE,
                              !.pulled = pull(ctx) ] ]

\* Peekable::next_if
next_if(ctx, pattern) ==
  IF ctx.pos < Len(tokens) /\ is(tokens[ctx.pos + 1], pattern)
  THEN [ tok |-> Some(tokens[ctx.pos + 1]),
         ctx |-> [ ctx EXCEPT !.pos = @ + 1,
                              !.peeked = FALSE,
                              !.pulled = pull(ctx),
                              !.consumed = Append(@, tokens[ctx.pos + 1]) ] ]
  ELSE [ tok |-> None, ctx |-> [ ctx EXCEPT !.peeked = TRUE, !.pulled = pull(ctx) ] ]

add_error(ctx, error) == [ ctx EXCEPT !.errors = Append(@, error) ]

(***************************************************************************)
(* parser/context.rs: the rules of ParseContext.  A rule returns the       *)
(* context it leaves and its Result.                                       *)
(***************************************************************************)
expect_token(ctx, expected, pattern) ==
  IF ctx.pos < Len(tokens) /\ is(tokens[ctx.pos + 1], pattern)
  THEN next_if(ctx, pattern)
  ELSE [ tok |-> None,
         ctx |-> add_error(next_if(ctx, pattern).ctx, UnexpectedToken(expected, head(ctx))) ]

expect_semicolon(ctx) == expect_token(ctx, << ";" >>, Semicolon).ctx

identifier(ctx) ==
  IF ctx.pos < Len(tokens) /\ is(tokens[ctx.pos + 1], AnyIdent)
  THEN [ ctx |-> next_if(ctx, AnyIdent).ctx, res |-> Ok(Identifier(tokens[ctx.pos + 1].span)) ]
  ELSE [ ctx |-> next_if(ctx, AnyIdent).ctx,
         res |-> Err(UnexpectedToken(<< "identifier" >>, next_if(ctx, AnyIdent).tok)) ]

\* a loop that assigns the flag of each keyword instead of inserting it
RECURSIVE insert_while_overwriting(_, _, _)
insert_while_overwriting(ctx, pattern, flags) ==
  IF ctx.pos < Len(tokens) /\ is(tokens[ctx.pos + 1], pattern)
  THEN insert_while_overwriting(next_if(ctx, pattern).ctx, pattern, { tokens[ctx.pos + 1].kind })
  ELSE [ ctx |-> next_if(ctx, pattern).ctx, res |-> Ok(flags) ]

\* the while-let loop of visibility and of class_modifiers: the flags of the
\* keywords of the pattern at the head of the stream, inserted into flags
RECURSIVE insert_while(_, _, _)
insert_while(ctx, pattern, flags) ==
  IF ctx.pos < Len(tokens) /\ is(tokens[ctx.pos + 1], pattern)
  THEN insert_while(next_if(ctx, pattern).ctx, pattern, flags \cup { tokens[ctx.pos + 1].kind })
  ELSE [ ctx |-> next_if(ctx, pattern).ctx, res |-> Ok(flags) ]

visibility(ctx) == insert_while(ctx, KeywordOf({ "Public", "Protected", "Private" }), {})

class_modifiers(ctx) == insert_while(ctx, KeywordOf({ "Abstract", "Final", "Static" }), {})

\* a class_member that returns the method it has read
class_member_rest_returning(ctx) ==
  [ ctx |-> expect_token(
              expect_token(
                expect_token(
                  expect_token(ctx, << "(" >>, LeftParen).ctx,
                  << ")" >>, RightParen).ctx,
                << "{" >>, LeftCurly).ctx,
              << "}" >>, RightCurly).ctx,
    res |-> Ok([ name |-> Identifier(tokens[ctx.pos].span) ]) ]

\* class_member after its identifier: the four expectations, then NotImplemented
class_member_rest(ctx) ==
  [ ctx |-> expect_token(
              expect_token(
                expect_token(
                  expect_token(ctx, << "(" >>, LeftParen).ctx,
                  << ")" >>, RightParen).ctx,
                << "{" >>, LeftCurly).ctx,
              << "}" >>, RightCurly).ctx,
    res |-> Err(NotImplemented(None)) ]

class_member(ctx) ==
  LET name == identifier(visibility(ctx).ctx)
  IN IF ~name.res.ok THEN name ELSE class_member_rest(name.ctx)

\* an expectation of `class` that consumes the token it finds instead
expect_class_consuming(ctx) ==
  IF ctx.pos < Len(tokens) /\ is(tokens[ctx.pos + 1], KeywordOf({ "Class" }))
  THEN next_if(ctx, KeywordOf({ "Class" })).ctx
  ELSE add_error(next(ctx).ctx, UnexpectedToken(<< "class" >>, head(ctx)))

\* the expectation of `class` in type_declaration
expect_class(ctx) ==
  IF ctx.pos < Len(tokens) /\ is(tokens[ctx.pos + 1], KeywordOf({ "Class" }))
  THEN next_if(ctx, KeywordOf({ "Class" })).ctx
  ELSE add_error(next_if(ctx, KeywordOf({ "Class" })).ctx,
                 UnexpectedToken(<< "class" >>, head(ctx)))

\* type_declaration up to its body loop: Err when there is no name, else the
\* new class_declaration
type_declaration_head(ctx) ==
  LET vis == visibility(ctx)
      mods == class_modifiers(vis.ctx)
      name == identifier(expect_class(mods.ctx))
  IN IF ~name.res.ok THEN name
     ELSE [ ctx |-> expect_token(name.ctx, << "{" >>, LeftCurly).ctx,
            res |-> Ok(ClassDeclaration_new(vis.res.value, mods.res.value, name.res.value)) ]

\* an iteration that reports the offending token with next(), consuming it
qualified_name_iteration_consuming(ctx, segs, ident) ==
  LET first == next_if(ctx, AnyIdent \cup Arithmetic)
      pushed == Append(segs, Identifier(first.tok[1].span))
      dot == next_if(first.ctx, Dot)
      after == IF dot.tok # None
               THEN [ ctx |-> dot.ctx, segments |-> pushed, res |-> None ]
               ELSE [ ctx |-> dot.ctx, segments |-> pushed, res |-> Some(Ok(pushed)) ]
  IN IF first.tok = None
     THEN [ ctx |-> next(first.ctx).ctx, segments |-> segs,
            res |-> Some(Err(UnexpectedToken(<< ident >>, next(first.ctx).tok))) ]
     ELSE IF first.tok[1].type = "Ident" THEN after
     ELSE IF resolve_span(first.tok[1].span) = Some(<< "*" >>) THEN after
     ELSE [ ctx |-> first.ctx, segments |-> segs,
            res |-> Some(Err(UnexpectedToken(<< "*" >>, peek(first.ctx).tok))) ]

\* an iteration that looks for the dot with next(), consuming what it finds
qualified_name_iteration_greedy(ctx, segs, ident) ==
  LET first == next_if(ctx, AnyIdent \cup Arithmetic)
      pushed == Append(segs, Identifier(first.tok[1].span))
      dot == next(first.ctx)
      after == IF dot.tok # None /\ is(dot.tok[1], Dot)
               THEN [ ctx |-> dot.ctx, segments |-> pushed, res |-> None ]
               ELSE [ ctx |-> dot.ctx, segments |-> pushed, res |-> Some(Ok(pushed)) ]
  IN IF first.tok = None
     THEN [ ctx |-> first.ctx, segments |-> segs,
            res |-> Some(Err(UnexpectedToken(<< ident >>, peek(first.ctx).tok))) ]
     ELSE IF first.tok[1].type = "Ident" THEN after
     ELSE IF resolve_span(first.tok[1].span) = Some(<< "*" >>) THEN after
     ELSE [ ctx |-> first.ctx, segments |-> segs,
            res |-> Some(Err(UnexpectedToken(<< "*" >>, peek(first.ctx).tok))) ]

\* one iteration of the loop of qualified_name; res is None while the loop
\* goes on.  ident names the identifier category in the diagnostic.
qualified_name_iteration(ctx, segs, ident) ==
  LET first == next_if(ctx, AnyIdent \cup Arithmetic)
      pushed == Append(segs, Identifier(first.tok[1].span))
      dot == next_if(first.ctx, Dot)
      after == IF dot.tok # None
               THEN [ ctx |-> dot.ctx, segments |-> pushed, res |-> None ]
               ELSE [ ctx |-> dot.ctx, segments |-> pushed, res |-> Some(Ok(pushed)) ]
  IN IF first.tok = None
     THEN [ ctx |-> first.ctx, segments |-> segs,
            res |-> Some(Err(UnexpectedToken(<< ident >>, peek(first.ctx).tok))) ]
     ELSE IF first.tok[1].type = "Ident" THEN after
     ELSE IF resolve_span(first.tok[1].span) = Some(<< "*" >>) THEN after
     ELSE [ ctx |-> first.ctx, segments |-> segs,
            res |-> Some(Err(UnexpectedToken(<< "*" >>, peek(first.ctx).tok))) ]

\* import_declaration after qualified_name has returned name: the Result, or
\* the abort of one of its two expect() calls
import_declaration_finish(is_static, name) ==
  IF ~name.ok THEN [ panic |-> FALSE, res |-> name ]
  ELSE IF name.value = << >> THEN [ panic |-> TRUE, res |-> name ]
  ELSE LET last_segment == resolve_span(name.value[Len(name.value)].span)
       IN IF last_segment = None THEN [ panic |-> TRUE, res |-> name ]
          ELSE [ panic |-> FALSE,
                 res |-> Ok([ kind |-> ImportKind(is_static, last_segment[1] = << "*" >>),
                              name |-> name.value ]) ]

(***************************************************************************)
(* parser/mod.rs: the rules of Parser that differ from ParseContext's.     *)
(***************************************************************************)
Parser_expect_semicolon(ctx) ==
  IF ctx.pos < Len(tokens) /\ is(tokens[ctx.pos + 1], Semicolon)
  THEN next_if(ctx, Semicolon).ctx
  ELSE add_error(next_if(ctx, Semicolon).ctx, UnexpectedToken(<< ";" >>, head(ctx)))

\* the last arm of the match of Parser::compilation_unit
Parser_unexpected(ctx) ==
  add_error(next(ctx).ctx, UnexpectedToken(<< "<unknown>" >>, next(ctx).tok))

(***************************************************************************)
(* Inputs.  A lexer input is a word of the tables (or nothing) followed by *)
(* at most MaxPieces pieces, or such pieces followed by a tail.            *)
(***************************************************************************)
SeqsUpTo(S, n) == UNION { [ 1..k -> S ] : k \in 0..n }

RECURSIVE Flatten(_)
Flatten(ss) == IF ss = << >> THEN << >> ELSE Head(ss) \o Flatten(Tail(ss))

Range(s) == { s[i] : i \in 1..Len(s) }

LexWords == { << >> } \cup { to_graphemes(w) : w \in Range(KEYWORDS) \cup Range(BOOLEAN_VALUES) }
LexPieces == { << "a" >>, << " " >>, << ";" >>, << "*" >>, << "\"" >> }
\* what a text may end with instead: a boolean word, a separator, or a
\* character that starts no token
LexTails == { to_graphemes(w) : w \in Range(BOOLEAN_VALUES) }
              \cup { << ";" >>, << "1" >>, << "=" >>, << "/", "a" >> }
\* an opening quote and what may follow it in a string literal
StringTexts == { << "\"" >> \o s : s \in SeqsUpTo({ "\\", "\"", "a" }, MaxPieces + 1) }
\* two lexemes with whitespace before each
SpacedTexts ==
  { << " " >> \o v \o << "\t", "\n" >> \o w :
      v \in { << "a" >>, << ";" >>, << "\"", "\"" >> },
      w \in { << "a" >>, << ";" >>, << "*" >> } }
LexTexts ==
  { w \o Flatten(ps) : w \in LexWords, ps \in SeqsUpTo(LexPieces, MaxPieces) }
    \cup { Flatten(ps) \o w : w \in LexTails, ps \in SeqsUpTo(LexPieces, MaxPieces) }
    \cup StringTexts
    \cup SpacedTexts

(***************************************************************************)
(* Parser inputs.  A text is a sequence of lexemes joined by single        *)
(* spaces: an optional declaration prefix, at most MaxTokens lexemes, an   *)
(* optional following import.  Parser reads the tokens of the lexer;       *)
(* ParseContext::new takes any iterator of tokens, so it is also run on    *)
(* the tokens of the lexemes themselves, `*` and `+` included.             *)
(***************************************************************************)
kw(s) == to_graphemes(s)

Prefixes == { << >>, << kw("package") >>, << kw("import") >>, << kw("import"), kw("static") >> }
NameLexemes == { << "a" >>, << "U+00E9" >>, << "." >>, << ";" >>, << "*" >>, << "+" >> }
Followers == { << >>, << kw("import"), << "a" >>, << ";" >> >> }
TypeLexemes == { kw("class"), kw("public"), kw("static"), << "a" >>, << "{" >>, << "}" >>,
                 << ";" >> }

\* in a text `+` and `*` are alike, the lexer has a token for neither
TextLexemes == NameLexemes \ { << "+" >> }

DeclInputsOf(lexemes) ==
  { p \o b \o f : p \in Prefixes, b \in SeqsUpTo(lexemes, MaxTokens), f \in Followers }
DeclInputs == DeclInputsOf(NameLexemes)
TypeInputs == SeqsUpTo(TypeLexemes, MaxTokens)
NameInputs == SeqsUpTo(NameLexemes, MaxTokens)

\* two package declarations, an import before them or not: a name with its
\* semicolon, a name without, a name that ends in a dot, and no name
PackageBodies ==
  { << << "a" >>, << ";" >> >>, << << "a" >>, << "." >>, << "a" >> >>,
    << << "a" >>, << "." >>, << ";" >> >>, << << ";" >> >> }
PackageInputs ==
  { f \o << kw("package") >> \o b \o << kw("package") >> \o c :
      f \in Followers, b \in PackageBodies, c \in PackageBodies }

\* a class whose body holds up to two members: a whole method, or one that
\* breaks off after its parameter list
MemberForms ==
  { << >>,
    << << "a" >>, << "(" >>, << ")" >>, << "{" >>, << "}" >> >>,
    << kw("public"), << "a" >>, << "(" >>, << ")" >> >> }
ClassInputs ==
  { << kw("class"), << "a" >>, << "{" >> >> \o m \o n \o << << "}" >> >> :
      m \in MemberForms, n \in MemberForms }

\* the inputs with a lexeme the lexer has no token for; for the others the
\* tokens of the lexer are the tokens of the lexemes
WithOperator(inputs) ==
  { ls \in inputs : \E i \in 1..Len(ls) : ls[i] \in { << "*" >>, << "+" >> } }

\* the texts of the tests test_qualified_names and test_imports
Text_a_b_wildcard == << "a", ".", "b", ".", "*" >>
Text_import_wildcard ==
  kw("import") \o << " ", "f", "o", "o", ".", "b", "a", "r", ".", "*", ";" >>
Text_import_static_wildcard ==
  kw("import") \o << " " >> \o kw("static")
    \o << " ", "f", "o", "o", ".", "b", "a", "r", ".", "B", "a", "z", ".", "*", ";" >>
RuleExamples == { Text_a_b_wildcard }
ParseExamples == { Text_import_wildcard, Text_import_static_wildcard }

RECURSIVE Join(_)
Join(ls) ==
  IF ls = << >> THEN << >>
  ELSE IF Len(ls) = 1 THEN ls[1]
  ELSE ls[1] \o << " " >> \o Join(Tail(ls))

\* the token of one lexeme that starts at grapheme index start
TokenOf(l, start) ==
  LET span == Span(start, start + Len(l))
  IN IF \E i \in 1..Len(KEYWORDS) : kw(KEYWORDS[i]) = l
     THEN Token("Keyword",
                Keyword_try_from_str(KEYWORDS[CHOOSE i \in 1..Len(KEYWORDS) : kw(KEYWORDS[i]) = l]),
                span)
     ELSE IF \E i \in 1..Len(SEPARATORS) : kw(SEPARATORS[i]) = l
     THEN Token("Separator",
                Separator_try_from_str(SEPARATORS[CHOOSE i \in 1..Len(SEPARATORS) : kw(SEPARATORS[i]) = l]),
                span)
     ELSE IF l \in { << "*" >>, << "+" >> } THEN Token("Operator", "Arithmetic", span)
     ELSE Token("Ident", "Ident", span)

RECURSIVE DirectFrom(_, _)
DirectFrom(ls, start) ==
  IF ls = << >> THEN << >>
  ELSE << TokenOf(ls[1], start) >> \o DirectFrom(Tail(ls), start + Len(ls[1]) + 1)

\* the tokens of Join(ls), one per lexeme
Direct(ls) == DirectFrom(ls, 0)

\* CompilationUnit::new(), a fresh Peekable and the locals of the rules
Fresh ==
  /\ impl = "none" /\ caller = "none"
  /\ pos = 0 /\ peeked = FALSE /\ static_import = FALSE /\ segments = << >>
  /\ result = None /\ package = None /\ imports = << >> /\ types = << >>
  /\ errors = << >> /\ class_declaration = None /\ iterations = 0 /\ iter_start = 0
  /\ pulled = 0 /\ consumed = << >>
  /\ other_index = 0 /\ other_yielded = << >> /\ other_ended = FALSE
  /\ match_offset = 0 /\ match_s = None /\ matched = None

\* Lexer::from(text).tokens(): a fresh TokenIterator over the text
FromText(texts, e) ==
  /\ \E input \in texts : text = input /\ source = Source(input)
  /\ tokens = << >>
  /\ entry = e
  /\ pc = "tokens"

\* a token stream handed to ParseContext::new as it is
FromTokens(inputs, e) ==
  /\ \E ls \in inputs :
       /\ \E input \in { Join(ls) } : text = input /\ source = Source(input)
       /\ tokens = Direct(ls)
  /\ entry = e
  /\ pc = "new"

Init ==
  /\ \/ FromText(LexTexts, "tokens")
     \/ FromText({ Join(ls) : ls \in DeclInputsOf(TextLexemes) \cup TypeInputs \cup PackageInputs }
                   \cup ParseExamples, "parse")
     \/ FromText({ Join(ls) : ls \in SeqsUpTo(TextLexemes, MaxTokens) } \cup RuleExamples,
                 "qualified_name")
     \/ FromTokens(WithOperator(DeclInputs) \cup ClassInputs, "parse")
     \/ FromTokens(WithOperator(NameInputs), "qualified_name")
  /\ char_index = 0
  /\ yielded = << >>
  /\ ended = FALSE
  /\ span_arg = None
  /\ resolved = None
  /\ Fresh

(***************************************************************************)
(* TokenIterator::next.  Calls after the iterator has ended are steps too: *)
(* they return None again and change nothing.                              *)
(***************************************************************************)
TokenIteratorNext ==
  LET r == TokenIterator_next(char_index)
  IN /\ pc = "tokens"
     /\ r.by # "panic"
     /\ char_index' = r.idx
     /\ yielded' = IF r.tok = None THEN yielded ELSE Append(yielded, r.tok[1])
     /\ ended' = (r.tok = None)
     /\ UNCHANGED source
     /\ UNCHANGED parsevars
     /\ UNCHANGED queryvars
     /\ UNCHANGED othervars
     /\ UNCHANGED matchvars

(***************************************************************************)
(* The entry points of the parsers.  The Peekable reads the TokenIterator  *)
(* to its end; the tokens are the ones it has returned, without comments.  *)
(***************************************************************************)
Enter(i) ==
  /\ entry \in { "parse", "qualified_name" }
  /\ \/ pc = "tokens" /\ ended /\ tokens' = SelectSeq(yielded, IsNoComment)
     \/ pc = "new" /\ i = "ParseContext" /\ tokens' = tokens
  /\ impl' = i
  /\ pc' = IF entry = "parse" THEN "compilation_unit" ELSE "qualified_name"
  /\ caller' = IF entry = "parse" THEN "none" ELSE "rule"
  /\ UNCHANGED << entry, pos, peeked, static_import, segments, result, package, imports,
                  types, errors, class_declaration, iterations, iter_start, pulled,
                  consumed >>
  /\ UNCHANGED lexvars
  /\ UNCHANGED queryvars
  /\ UNCHANGED othervars
  /\ UNCHANGED matchvars

\* Parser::parse, or a rule of Parser applied to Parser::tokens()
ParserEnter == Enter("Parser") /\ impl' = "Parser"

\* ParseContext::new and ParseContext::parse, or a rule applied to the context
ContextEnter == Enter("ParseContext") /\ impl' = "ParseContext"

(***************************************************************************)
(* The parser's steps.                                                     *)
(***************************************************************************)
ctx0 == [ pos |-> pos, peeked |-> peeked, errors |-> errors, pulled |-> pulled,
          consumed |-> consumed ]

\* the context a step leaves; a run is cut off after MaxErrors diagnostics
Leave(ctx) ==
  /\ Len(ctx.errors) <= MaxErrors
  /\ pos' = ctx.pos
  /\ peeked' = ctx.peeked
  /\ errors' = ctx.errors
  /\ pulled' = ctx.pulled
  /\ consumed' = ctx.consumed

AtHead(pattern) == pos < Len(tokens) /\ is(tokens[pos + 1], pattern)

\* the name of the identifier category in the diagnostics of qualified_name
ident_category == IF impl = "Parser" THEN "Ident" ELSE "identifier"

\* an expectation that consumes the token it rejects
semicolon_expected_consuming(ctx) ==
  IF ctx.pos < Len(tokens) /\ is(tokens[ctx.pos + 1], Semicolon)
  THEN next_if(ctx, Semicolon).ctx
  ELSE add_error(next(ctx).ctx, UnexpectedToken(<< ";" >>, head(ctx)))

semicolon_expected(ctx) ==
  IF impl = "Parser" THEN Parser_expect_semicolon(ctx) ELSE expect_semicolon(ctx)

\* compilation_unit: peek() returns None, the loop ends
CompilationUnitEnd ==
  /\ pc = "compilation_unit"
  /\ pos >= Len(tokens)
  /\ pc' = "done"
  /\ peeked' = TRUE
  /\ pulled' = pull(ctx0)
  /\ UNCHANGED << pos, errors, consumed, caller, static_import, segments, result, package, imports,
                  types, class_declaration, iterations, iter_start >>
  /\ UNCHANGED << tokens, impl, entry >>
  /\ UNCHANGED lexvars
  /\ UNCHANGED queryvars
  /\ UNCHANGED othervars
  /\ UNCHANGED matchvars

\* compilation_unit, arm Package: package_declaration skips the keyword and
\* enters qualified_name
PackageDeclaration ==
  /\ pc = "compilation_unit"
  /\ AtHead(KeywordOf({ "Package" }))
  /\ Leave(next(ctx0).ctx)
  /\ pc' = "qualified_name"
  /\ caller' = "package_declaration"
  /\ segments' = << >>
  /\ iter_start' = pos
  /\ UNCHANGED << static_import, result, package, imports, types, class_declaration, iterations >>
  /\ UNCHANGED << tokens, impl, entry >>
  /\ UNCHANGED lexvars
  /\ UNCHANGED queryvars
  /\ UNCHANGED othervars
  /\ UNCHANGED matchvars

\* compilation_unit, arm Import: import_declaration skips the keyword, takes
\* an optional `static` and enters qualified_name
ImportDeclaration ==
  /\ pc = "compilation_unit"
  /\ AtHead(KeywordOf({ "Import" }))
  /\ Leave(next_if(next(ctx0).ctx, KeywordOf({ "Static" })).ctx)
  /\ static_import' = (next_if(next(ctx0).ctx, KeywordOf({ "Static" })).tok # None)
  /\ pc' = "qualified_name"
  /\ caller' = "import_declaration"
  /\ segments' = << >>
  /\ iter_start' = pos
  /\ UNCHANGED << result, package, imports, types, class_declaration, iterations >>
  /\ UNCHANGED << tokens, impl, entry >>
  /\ UNCHANGED lexvars
  /\ UNCHANGED queryvars
  /\ UNCHANGED othervars
  /\ UNCHANGED matchvars

\* one iteration of the loop of qualified_name
QualifiedName ==
  LET r == qualified_name_iteration(ctx0, segments, ident_category)
  IN /\ pc = "qualified_name"
     /\ Leave(r.ctx)
     /\ segments' = r.segments
     /\ result' = r.res
     /\ pc' = IF r.res = None THEN "qualified_name"
              ELSE IF caller = "rule" THEN "returned"
              ELSE caller
     /\ UNCHANGED << caller, static_import, package, imports, types, class_declaration,
                     iterations, iter_start >>
     /\ UNCHANGED << tokens, impl, entry >>
     /\ UNCHANGED lexvars
     /\ UNCHANGED queryvars
     /\ UNCHANGED othervars
     /\ UNCHANGED matchvars

\* compilation_unit, arm Package, after package_declaration has returned
PackageDeclarationReturn ==
  /\ pc = "package_declaration"
  /\ IF result[1].ok
     THEN /\ package' = set_package(package, result[1].value)
          /\ Leave(semicolon_expected(ctx0))
     ELSE /\ package' = package
          /\ Leave(semicolon_expected(add_error(ctx0, result[1].error)))
  /\ pc' = "compilation_unit"
  /\ iterations' = iterations + 1
  /\ UNCHANGED << caller, static_import, segments, result, imports, types, class_declaration,
                  iter_start >>
  /\ UNCHANGED << tokens, impl, entry >>
  /\ UNCHANGED lexvars
  /\ UNCHANGED queryvars
  /\ UNCHANGED othervars
  /\ UNCHANGED matchvars

\* import_declaration after qualified_name has returned, and the rest of the
\* arm Import of compilation_unit
ImportDeclarationReturn ==
  LET import == import_declaration_finish(static_import, result[1])
  IN /\ pc = "import_declaration"
     /\ IF import.panic
        THEN /\ pc' = "panic"
             /\ UNCHANGED << pos, peeked, errors, pulled, consumed, imports, iterations >>
        ELSE /\ pc' = "compilation_unit"
             /\ iterations' = iterations + 1
             /\ IF import.res.ok
                THEN /\ imports' = Append(imports, import.res.value)
                     /\ Leave(semicolon_expected(ctx0))
                ELSE /\ imports' = imports
                     /\ Leave(semicolon_expected(add_error(ctx0, import.res.error)))
     /\ UNCHANGED << caller, static_import, segments, result, package, types, class_declaration,
                     iter_start >>
     /\ UNCHANGED << tokens, impl, entry >>
     /\ UNCHANGED lexvars
     /\ UNCHANGED queryvars
     /\ UNCHANGED othervars
     /\ UNCHANGED matchvars

\* Parser::compilation_unit, last arm: the token is consumed and reported
Unexpected ==
  /\ pc = "compilation_unit"
  /\ impl = "Parser"
  /\ pos < Len(tokens)
  /\ ~AtHead(KeywordOf({ "Package", "Import" }))
  /\ Leave(Parser_unexpected(ctx0))
  /\ iter_start' = pos
  /\ iterations' = iterations + 1
  /\ UNCHANGED << pc, caller, static_import, segments, result, package, imports, types,
                  class_declaration >>
  /\ UNCHANGED << tokens, impl, entry >>
  /\ UNCHANGED lexvars
  /\ UNCHANGED queryvars
  /\ UNCHANGED othervars
  /\ UNCHANGED matchvars

\* ParseContext::compilation_unit, last arm: type_declaration up to its body
\* loop, or its early return and the diagnostic added for it
TypeDeclaration ==
  LET r == type_declaration_head(ctx0)
  IN /\ pc = "compilation_unit"
     /\ impl = "ParseContext"
     /\ pos < Len(tokens)
     /\ ~AtHead(KeywordOf({ "Package", "Import" }))
     /\ iter_start' = pos
     /\ IF r.res.ok
        THEN /\ Leave(r.ctx)
             /\ class_declaration' = Some(r.res.value)
             /\ pc' = "class_body"
             /\ iterations' = iterations
        ELSE /\ Leave(add_error(r.ctx, r.res.error))
             /\ class_declaration' = class_declaration
             /\ pc' = "compilation_unit"
             /\ iterations' = iterations + 1
     /\ UNCHANGED << caller, static_import, segments, result, package, imports, types >>
     /\ UNCHANGED << tokens, impl, entry >>
     /\ UNCHANGED lexvars
     /\ UNCHANGED queryvars
     /\ UNCHANGED othervars
     /\ UNCHANGED matchvars

\* the body loop of type_declaration finds `}`: the declaration is complete
\* and compilation_unit adds it
ClassBodyEnd ==
  /\ pc = "class_body"
  /\ AtHead(RightCurly)
  /\ Leave(next_if(ctx0, RightCurly).ctx)
  /\ types' = Append(types, class_declaration[1])
  /\ class_declaration' = None
  /\ pc' = "compilation_unit"
  /\ iterations' = iterations + 1
  /\ UNCHANGED << caller, static_import, segments, result, package, imports, iter_start >>
  /\ UNCHANGED << tokens, impl, entry >>
  /\ UNCHANGED lexvars
  /\ UNCHANGED queryvars
  /\ UNCHANGED othervars
  /\ UNCHANGED matchvars

\* the body loop of type_declaration finds no `}`: one call of class_member
ClassMember ==
  LET r == class_member(next_if(ctx0, RightCurly).ctx)
  IN /\ pc = "class_body"
     /\ ~AtHead(RightCurly)
     /\ IF r.res.ok
        THEN /\ Leave(r.ctx)
             /\ class_declaration' =
                  Some([ class_declaration[1] EXCEPT !.members = Append(@, r.res.value) ])
        ELSE /\ Leave(add_error(r.ctx, r.res.error))
             /\ class_declaration' = class_declaration
     /\ UNCHANGED << pc, caller, static_import, segments, result, package, imports, types,
                     iterations, iter_start >>
     /\ UNCHANGED << tokens, impl, entry >>
     /\ UNCHANGED lexvars
     /\ UNCHANGED queryvars
     /\ UNCHANGED othervars
     /\ UNCHANGED matchvars

Next ==
  \/ TokenIteratorNext
  \/ ParserEnter
  \/ ContextEnter
  \/ CompilationUnitEnd
  \/ PackageDeclaration
  \/ ImportDeclaration
  \/ QualifiedName
  \/ PackageDeclarationReturn
  \/ ImportDeclarationReturn
  \/ Unexpected
  \/ TypeDeclaration
  \/ ClassBodyEnd
  \/ ClassMember

Spec == Init /\ [][Next]_vars

(***************************************************************************)
(* Source on its own: Source::from applied to a text of at most MaxChars   *)
(* scalar values, then Source::resolve_span applied to spans over it.      *)
(***************************************************************************)
SourceChars == { "a", "U+00E9", "\r", "\n", "U+0301" }
SourceTexts == SeqsUpTo(SourceChars, MaxChars)

SourceInit ==
  /\ text \in SourceTexts
  /\ source = None
  /\ pc = "from"
  /\ entry = "source"
  /\ tokens = << >>
  /\ char_index = 0
  /\ yielded = << >>
  /\ ended = FALSE
  /\ span_arg = None
  /\ resolved = None
  /\ Fresh

\* Source::from: the grapheme table is built, or the unwrap() in
\* to_grapheme_indices aborts
SourceFrom ==
  /\ pc = "from"
  /\ IF to_grapheme_indices_panics(text)
     THEN pc' = "panic" /\ source' = source
     ELSE pc' = "source" /\ source' = Source(text)
  /\ UNCHANGED << char_index, yielded, ended, text, span_arg, resolved >>
  /\ UNCHANGED othervars
  /\ UNCHANGED << tokens, impl, entry, pos, peeked, caller, static_import, segments, result,
                  package, imports, types, errors, class_declaration, iterations,
                  iter_start, pulled, consumed >>
  /\ UNCHANGED matchvars

\* Source::resolve_span.  `end - 1_usize` with end = 0 overflows: the call
\* aborts where overflow is checked, and elsewhere the index wraps around to
\* usize::MAX, for which translate_index finds no entry.
ResolveSpan ==
  /\ pc = "source"
  /\ \E start, end \in 0..(MaxChars + 1) :
       /\ span_arg' = Some(Span(start, end))
       /\ \/ resolved' = resolve_span(Span(start, end)) /\ pc' = pc
          \/ /\ translate_index(start) # None
             /\ end = 0
             /\ resolved' = None
             /\ pc' = "overflow"
  /\ UNCHANGED << source, char_index, yielded, ended, text >>
  /\ UNCHANGED othervars
  /\ UNCHANGED << tokens, impl, entry, pos, peeked, caller, static_import, segments, result,
                  package, imports, types, errors, class_declaration, iterations,
                  iter_start, pulled, consumed >>
  /\ UNCHANGED matchvars

SourceNext ==
  \/ SourceFrom
  \/ ResolveSpan

SourceSpec == SourceInit /\ [][SourceNext]_vars

(***************************************************************************)
(* Two TokenIterators of one Lexer.  Lexer::tokens takes &self, so any     *)
(* number of iterators may borrow the Lexer at once; each call of next()   *)
(* on either of them is one step.                                          *)
(***************************************************************************)
IteratorPieces == { kw("do"), << "a" >>, << " " >>, << ";" >>, << "*" >> }
IteratorTexts == { Flatten(ps) : ps \in SeqsUpTo(IteratorPieces, MaxPieces + 1) }

IteratorsInit ==
  /\ FromText(IteratorTexts, "iterators")
  /\ char_index = 0
  /\ yielded = << >>
  /\ ended = FALSE
  /\ span_arg = None
  /\ resolved = None
  /\ Fresh

\* a second iterator that shares the cursor of the first
OtherIteratorNext_shared_cursor ==
  LET r == TokenIterator_next(char_index)
  IN /\ pc = "tokens"
     /\ r.by # "panic"
     /\ char_index' = r.idx
     /\ other_index' = r.idx
     /\ other_yielded' = IF r.tok = None THEN other_yielded ELSE Append(other_yielded, r.tok[1])
     /\ other_ended' = (r.tok = None)
     /\ UNCHANGED << source, yielded, ended >>
     /\ UNCHANGED parsevars
     /\ UNCHANGED queryvars
     /\ UNCHANGED matchvars

\* next() on the second iterator: it reads the Source and its own cursor
OtherIteratorNext ==
  LET r == TokenIterator_next(other_index)
  IN /\ pc = "tokens"
     /\ r.by # "panic"
     /\ other_index' = r.idx
     /\ other_yielded' = IF r.tok = None THEN other_yielded ELSE Append(other_yielded, r.tok[1])
     /\ other_ended' = (r.tok = None)
     /\ UNCHANGED lexvars
     /\ UNCHANGED parsevars
     /\ UNCHANGED queryvars
     /\ UNCHANGED matchvars

IteratorsNext ==
  \/ TokenIteratorNext
  \/ OtherIteratorNext

IteratorsSpec == IteratorsInit /\ [][IteratorsNext]_vars

(***************************************************************************)
(* The rules visibility and class_modifiers of ParseContext applied to a   *)
(* token stream, as the tests apply a rule to a fresh context.             *)
(***************************************************************************)
ModifierLexemes == { kw("public"), kw("protected"), kw("private"), kw("abstract"), kw("final"),
                     kw("static"), << "a" >> }
ModifierInputs == SeqsUpTo(ModifierLexemes, MaxTokens)

ModifiersInit ==
  /\ \/ FromTokens(ModifierInputs, "visibility")
     \/ FromTokens(ModifierInputs, "class_modifiers")
  /\ char_index = 0
  /\ yielded = << >>
  /\ ended = FALSE
  /\ span_arg = None
  /\ resolved = None
  /\ Fresh

\* a rule returns to the caller that applied it
RuleReturns(r) ==
  /\ pc = "new"
  /\ impl' = "ParseContext"
  /\ Leave(r.ctx)
  /\ result' = Some(r.res)
  /\ pc' = "returned"
  /\ UNCHANGED << tokens, entry, caller, static_import, segments, package, imports, types,
                  class_declaration, iterations, iter_start >>
  /\ UNCHANGED lexvars
  /\ UNCHANGED queryvars
  /\ UNCHANGED othervars
  /\ UNCHANGED matchvars

Visibility == entry = "visibility" /\ RuleReturns(visibility(ctx0))

ClassModifiers == entry = "class_modifiers" /\ RuleReturns(class_modifiers(ctx0))

ModifiersNext ==
  \/ Visibility
  \/ ClassModifiers

ModifiersSpec == ModifiersInit /\ [][ModifiersNext]_vars

(***************************************************************************)
(* Source::matches on its own: a Source over a text of two letters, and    *)
(* calls with any offset up to one past its end and any of the strings of  *)
(* ArgumentGraphemes.                                                      *)
(***************************************************************************)
MatchTexts == SeqsUpTo({ "a", "b" }, MaxChars)
MatchArguments == DOMAIN ArgumentGraphemes

MatchesInit ==
  /\ FromText(MatchTexts, "matches")
  /\ char_index = 0
  /\ yielded = << >>
  /\ ended = FALSE
  /\ span_arg = None
  /\ resolved = None
  /\ Fresh

\* a call of Source::matches
Matches ==
  /\ entry = "matches"
  /\ \E offset \in 0..(MaxChars + 1), s \in MatchArguments :
       /\ match_offset' = offset
       /\ match_s' = Some(s)
       /\ matched' = Some(matches(offset, s))
  /\ UNCHANGED lexvars
  /\ UNCHANGED parsevars
  /\ UNCHANGED queryvars
  /\ UNCHANGED othervars

MatchesNext == Matches

MatchesSpec == MatchesInit /\ [][MatchesNext]_vars

(***************************************************************************)
(* Properties.                                                             *)
(***************************************************************************)
IsPrefix(a, b) == Len(a) <= Len(b) /\ SubSeq(b, 1, Len(a)) = a

\* a run of the parser has returned from the rule qualified_name just now
QualifiedNameReturned ==
  /\ pc \in { "returned", "package_declaration", "import_declaration" }
  /\ result # None

\* the number of tokens consumed before qualified_name was entered
NameStart ==
  IF caller = "rule" THEN 0
  ELSE IF caller = "import_declaration" /\ static_import THEN iter_start + 2
  ELSE iter_start + 1

\* an identifier, or the wildcard `*`
IsSegment(t) ==
  \/ is(t, AnyIdent)
  \/ is(t, Arithmetic) /\ resolve_span(t.span) = Some(<< "*" >>)

\* the tokens after NameStart begin with m segments, each followed by a dot
DottedPrefix(m) ==
  /\ NameStart + 2 * m <= Len(tokens)
  /\ \A i \in 1..m : /\ IsSegment(tokens[NameStart + 2 * i - 1])
                     /\ is(tokens[NameStart + 2 * i], Dot)

\* C1: ParseContext::parse reaches the end of every finite token stream and
\* returns.  The rules read nothing but the token stream, so a step that
\* leaves the control point and the stream position where they were repeats
\* forever: every step of the parse moves one of the two.
C1_ParseContextTerminates ==
  [][(impl = "ParseContext" /\ entry = "parse") => (pos' > pos \/ pc' # pc)]_vars

\* C2: every iteration of the top-level loop of ParseContext::compilation_unit
\* consumes at least one token.
C2_TopLevelIterationConsumes ==
  [][(impl = "ParseContext" /\ iterations' = iterations + 1) => pos' > iter_start']_vars

\* C3: every call of class_member that ends in an error has consumed at least
\* one token.
C3_ClassMemberErrorConsumes ==
  [][(pc = "class_body" /\ pc' = "class_body" /\ Len(errors') > Len(errors)) => pos' > pos]_vars

\* C4: Parser::parse returns Ok for every token stream: it never aborts, every
\* iteration of its top-level loop consumes at least one token, and every
\* token that starts no declaration is reported by exactly one UnexpectedToken
\* diagnostic whose found field is that token.
C4_ParserParseReturnsOk ==
  (impl = "Parser" /\ entry = "parse") =>
    /\ pc # "panic"
    /\ iterations <= pos
    /\ pos <= Len(tokens)
    /\ \A k \in 1..Len(errors) :
         errors[k].expected = << "<unknown>" >> =>
           /\ \E j \in 1..pos : errors[k].found = Some(tokens[j])
           /\ \A l \in 1..Len(errors) : l # k => errors[l] # errors[k]

\* the stream is `package`, a qualified name that breaks off at a `;` at
\* position k, and then nothing or the import of one identifier
MalformedPackage(k) ==
  /\ k \in 2..Len(tokens)
  /\ k % 2 = 0
  /\ is(tokens[1], KeywordOf({ "Package" }))
  /\ is(tokens[k], Semicolon)
  /\ \A j \in 2..(k - 1) : IF j % 2 = 0 THEN is(tokens[j], AnyIdent) ELSE is(tokens[j], Dot)
  /\ \/ Len(tokens) = k
     \/ /\ Len(tokens) = k + 3
        /\ is(tokens[k + 1], KeywordOf({ "Import" }))
        /\ is(tokens[k + 2], AnyIdent)
        /\ is(tokens[k + 3], Semicolon)

\* C5: when the qualified name of a package declaration fails at a semicolon,
\* qualified_name leaves that semicolon in the stream, and the unit ends with
\* exactly one diagnostic (UnexpectedToken expecting an identifier, found that
\* semicolon), no package, every token consumed and the following import
\* parsed as SingleType.
C5_PackageErrorRecovery ==
  \A k \in 1..Len(tokens) :
    (entry = "parse" /\ MalformedPackage(k)) =>
      /\ pc = "package_declaration" =>
           /\ pos = k - 1
           /\ result = Some(Err(UnexpectedToken(<< ident_category >>, Some(tokens[k]))))
      /\ pc = "done" =>
           /\ errors = << UnexpectedToken(<< ident_category >>, Some(tokens[k])) >>
           /\ package = None
           /\ pos = Len(tokens)
           /\ imports = IF Len(tokens) = k THEN << >>
                        ELSE << [ kind |-> "SingleType",
                                  name |-> << Identifier(tokens[k + 2].span) >> ] >>

C5_Witness ==
  /\ impl = "Parser"
  /\ pc = "done"
  /\ MalformedPackage(4)
  /\ Len(tokens) = 7
  /\ Len(errors) = 1
  /\ Len(imports) = 1

\* C6: whenever qualified_name succeeds it has consumed exactly the segments
\* and dots of the name, segment (Dot segment)*, and the token after the name,
\* which is not a Dot, is still the next token of the stream.
C6_QualifiedNameStopsAfterName ==
  (QualifiedNameReturned /\ result[1].ok) =>
    LET name == result[1].value
        n == Len(name)
    IN /\ n >= 1
       /\ pos = NameStart + 2 * n - 1
       /\ pos <= Len(tokens)
       /\ \A i \in 1..n : /\ IsSegment(tokens[NameStart + 2 * i - 1])
                          /\ name[i] = Identifier(tokens[NameStart + 2 * i - 1].span)
       /\ \A i \in 1..(n - 1) : is(tokens[NameStart + 2 * i], Dot)
       /\ pos < Len(tokens) => ~is(tokens[pos + 1], Dot)

C6_Witness ==
  /\ QualifiedNameReturned
  /\ result[1].ok
  /\ Len(result[1].value) = 2
  /\ pos < Len(tokens)
  /\ is(tokens[pos + 1], KeywordOf({ "Import" }))

\* C7: the lexer and qualified_name on the text `a.b.*` yield three segments,
\* the last being the `*` at graphemes [4,5); parsing `import foo.bar.*;` and
\* `import static foo.bar.Baz.*;` yields an OnDemand and a StaticOnDemand
\* import and no diagnostics.
C7_WildcardFromText ==
  /\ (source.input = Text_a_b_wildcard /\ pc = "returned") =>
       result = Some(Ok(<< Identifier(Span(0, 1)), Identifier(Span(2, 3)), Identifier(Span(4, 5)) >>))
  /\ (source.input = Text_import_wildcard /\ pc = "done") =>
       /\ errors = << >>
       /\ Len(imports) = 1
       /\ imports[1].kind = "OnDemand"
  /\ (source.input = Text_import_static_wildcard /\ pc = "done") =>
       /\ errors = << >>
       /\ Len(imports) = 1
       /\ imports[1].kind = "StaticOnDemand"

C9_ImportClassification ==
  \A k \in 1..Len(imports) :
    LET name == imports[k].name
        first == CHOOSE j \in 1..Len(tokens) : tokens[j].span = name[1].span
        is_static == /\ first > 2
                     /\ is(tokens[first - 1], KeywordOf({ "Static" }))
                     /\ is(tokens[first - 2], KeywordOf({ "Import" }))
        is_on_demand == resolve_span(name[Len(name)].span) = Some(<< "*" >>)
    IN /\ imports[k].kind \in { "SingleType", "StaticSingleType", "OnDemand", "StaticOnDemand" }
       /\ imports[k].kind = "SingleType" <=> (~is_static /\ ~is_on_demand)
       /\ imports[k].kind = "StaticSingleType" <=> (is_static /\ ~is_on_demand)
       /\ imports[k].kind = "OnDemand" <=> (~is_static /\ is_on_demand)
       /\ imports[k].kind = "StaticOnDemand" <=> (is_static /\ is_on_demand)

C9_Witness ==
  /\ Len(imports) = 2
  /\ imports[1].kind = "StaticOnDemand"
  /\ imports[2].kind = "SingleType"

\* no reserved word stands in KEYWORDS before a longer one it is a prefix of
LongerKeywordFirst ==
  \A i, j \in 1..Len(KEYWORDS) : i < j => ~IsPrefix(kw(KEYWORDS[i]), kw(KEYWORDS[j]))

\* C10: of two reserved words of which one is a prefix of the other the longer
\* one is probed first, so the tokens of a text that is exactly one reserved
\* word are exactly one Keyword token of that word spanning the whole input.
C10_KeywordLongestMatch ==
  /\ LongerKeywordFirst
  /\ \A i \in 1..Len(KEYWORDS) :
       source.input = kw(KEYWORDS[i]) =>
         /\ yielded \in { << >>,
                          << Token("Keyword", Keyword_try_from_str(KEYWORDS[i]),
                                   Span(0, Len(source.input))) >> }
         /\ ended => Len(yielded) = 1

C10_Witness ==
  /\ source.input = kw("double")
  /\ ended
  /\ yielded = << Token("Keyword", "Double", Span(0, 6)) >>


\* the cursor at which the next call of TokenIterator::next looks for a token
Cursor == skip_whitespace(char_index)

\* the characters of the source from grapheme index idx on begin with w
TextAt(idx, w) ==
  /\ idx + Len(w) <= Len(source.graphemes)
  /\ \A j \in 1..Len(w) : source.graphemes[idx + j].c = w[j]

\* C11: when the text at the cursor is `true` or `false`, the token the lexer
\* returns is a Boolean Literal of those 4 or 5 graphemes, never an Ident.
C11_BooleanBeforeIdentifier ==
  [][\A i \in 1..Len(BOOLEAN_VALUES) :
       (pc = "tokens" /\ TextAt(Cursor, kw(BOOLEAN_VALUES[i]))) =>
         /\ Len(kw(BOOLEAN_VALUES[i])) \in { 4, 5 }
         /\ yielded' = Append(yielded,
                              Token("Literal", "Boolean",
                                    Span(Cursor, Cursor + Len(kw(BOOLEAN_VALUES[i])))))]_vars

C11_Witness ==
  /\ pc = "tokens"
  /\ text = << "a", " " >> \o kw("false")
  /\ yielded = << Token("Ident", "Ident", Span(0, 1)), Token("Literal", "Boolean", Span(2, 7)) >>

\* the characters of the graphemes start..end-1 of the source
Lexeme(sp) == [ j \in 1..(sp.end - sp.start) |-> source.graphemes[sp.start + j].c ]

\* the characters w are the text of a token of the type and kind of t
IsTextOf(w, t) ==
  CASE t.type = "Keyword" ->
         \E i \in 1..Len(KEYWORDS) : Keyword_try_from_str(KEYWORDS[i]) = t.kind /\ w = kw(KEYWORDS[i])
    [] t.type = "Separator" ->
         \E i \in 1..Len(SEPARATORS) :
           Separator_try_from_str(SEPARATORS[i]) = t.kind /\ w = << SEPARATORS[i] >>
    [] t.type = "Literal" /\ t.kind = "Boolean" ->
         \E i \in 1..Len(BOOLEAN_VALUES) : w = kw(BOOLEAN_VALUES[i])
    [] t.type = "Literal" /\ t.kind = "String" ->
         Len(w) >= 1 /\ w[1] = "\"" /\ (Len(w) >= 2 => w[Len(w)] = "\"")
    [] t.type = "Ident" ->
         /\ Len(w) >= 1
         /\ is_java_identifier_start(w[1])
         /\ \A j \in 1..Len(w) : is_java_identifier_part(w[j])
    [] OTHER -> FALSE

\* C12: the span of every token the lexer has returned lies within the source
\* and resolves to exactly the token's text (the reserved word, the separator
\* character, `true`/`false`, the string with its quotes, the identifier's
\* characters), and the tokens stand in source order.
C12_TokenSpansDenoteLexemes ==
  /\ \A k \in 1..Len(yielded) :
       /\ 0 <= yielded[k].span.start
       /\ yielded[k].span.start < yielded[k].span.end
       /\ yielded[k].span.end <= Len(source.graphemes)
       /\ IsTextOf(Lexeme(yielded[k].span), yielded[k])
       /\ resolve_span(yielded[k].span) = Some(Lexeme(yielded[k].span))
  /\ \A k \in 1..(Len(yielded) - 1) : yielded[k].span.end <= yielded[k + 1].span.start

\* C13: for every span with 0 <= start < end <= grapheme count, resolve_span
\* returns exactly the text of the graphemes start..end-1, whatever the
\* number of bytes the last of them is encoded in.
C13_SpanResolutionExact ==
  (pc = "source" /\ span_arg # None) =>
    ((0 <= span_arg[1].start /\ span_arg[1].start < span_arg[1].end
        /\ span_arg[1].end <= Len(source.graphemes)) =>
       resolved = Some(Lexeme(span_arg[1])))

\* C14: resolve_span returns None when the start of the span is at or beyond
\* the grapheme count, when its end is beyond the grapheme count, and when the
\* span is empty at the end of the source.
C14_OutOfRangeUnresolvable ==
  (entry = "source" /\ span_arg # None) =>
    ((\/ span_arg[1].start >= Len(source.graphemes)
      \/ span_arg[1].end > Len(source.graphemes)
      \/ span_arg[1].start = span_arg[1].end /\ span_arg[1].start = Len(source.graphemes)) =>
       pc = "source" /\ resolved = None)

C14_Witness ==
  /\ pc = "source"
  /\ text = << "a", "U+00E9" >>
  /\ span_arg = Some(Span(1, 3))
  /\ resolved = None

\* a character of the ASCII range
is_ascii(c) == c \notin WideLetters \cup CombiningMarks \cup { "U+2007", "U+202F" }

\* C15: Source::from succeeds for every ASCII-only text, CR LF included, and
\* its grapheme table has as many entries as the text has characters.
C15_AsciiGraphemeCount ==
  (entry = "source" /\ pc # "from" /\ \A i \in 1..Len(text) : is_ascii(text[i])) =>
    /\ pc # "panic"
    /\ Len(source.graphemes) = Len(text)

\* C16: Source::from completes for every text, also when a grapheme cluster
\* has more than one code point, and its table has one (byte offset,
\* character) entry per grapheme cluster.
C16_SourceConstructionTotal ==
  (entry = "source" /\ pc # "from") =>
    /\ pc # "panic"
    /\ Len(source.graphemes) = Len(grapheme_indices(text))
    /\ \A i \in 1..Len(source.graphemes) :
         /\ source.graphemes[i].off = grapheme_indices(text)[i].off
         /\ source.graphemes[i].c = grapheme_indices(text)[i].g[1]

\* the token is a String literal whose opening quote no other quote follows
UnterminatedString(t) ==
  /\ t.type = "Literal"
  /\ t.kind = "String"
  /\ \A j \in (t.span.start + 2)..Len(source.graphemes) : source.graphemes[j].c # "\""

\* C17: a string literal whose closing quote is missing is returned as one
\* String literal token whose span runs from the opening quote to the end of
\* the input; it is the last token, and the cursor stands at the end of input.
C17_UnterminatedString ==
  \A k \in 1..Len(yielded) :
    UnterminatedString(yielded[k]) =>
      /\ yielded[k].span.end = Len(source.graphemes)
      /\ k = Len(yielded)
      /\ char_index = Len(source.graphemes)
      /\ TokenIterator_next(char_index).tok = None

\* the character is no whitespace and starts no keyword, separator, literal
\* or identifier (reserved words and `true`/`false` start with a letter)
StartsNoToken(c) ==
  /\ ~is_java_whitespace(c)
  /\ ~is_java_identifier_start(c)
  /\ c # "\""
  /\ \A i \in 1..Len(SEPARATORS) : c # SEPARATORS[i]

\* the cursor has reached a grapheme that starts no token
AtGap == Cursor < Len(source.graphemes) /\ StartsNoToken(source.graphemes[Cursor + 1].c)

\* the parser works on the tokens of a text whose tokenization ended at a
\* grapheme that starts no token: it is handed the tokens before that
\* grapheme, ends when it has consumed them, and none of its diagnostics names
\* anything at or after the grapheme
GapIsEndOfInput ==
  (ended /\ AtGap /\ pc # "tokens") =>
    /\ tokens = yielded
    /\ \A k \in 1..Len(tokens) : tokens[k].span.end <= Cursor
    /\ \A k \in 1..Len(errors) :
         errors[k].type = "UnexpectedToken" =>
           \/ errors[k].found = None
           \/ \E j \in 1..Len(tokens) : errors[k].found = Some(tokens[j])
    /\ pc = "done" => pos = Len(tokens)

C19_FoundIsNextToken ==
  [][\A k \in (Len(errors) + 1)..Len(errors') :
       errors'[k].type = "UnexpectedToken" =>
         IF errors'[k].found = None
         THEN pos' = Len(tokens)
         ELSE \E j \in pos..pos' : j < Len(tokens) /\ errors'[k].found = Some(tokens[j + 1])]_vars

NameAndBody ==
  /\ Len(tokens) = 3
  /\ is(tokens[1], AnyIdent)
  /\ is(tokens[2], LeftCurly)
  /\ is(tokens[3], RightCurly)

\* C22: on the tokens `Name { }` type_declaration adds exactly one diagnostic,
\* UnexpectedToken expecting `class` with the identifier as found, consumes
\* nothing for the missing keyword (the identifier is taken as the name), and
\* the class declaration of that name is appended to the types of the unit.
C22_MissingClassKeyword ==
  (impl = "ParseContext" /\ entry = "parse" /\ NameAndBody /\ pos > 0) =>
    /\ errors = << UnexpectedToken(<< "class" >>, Some(tokens[1])) >>
    /\ pc = "class_body" =>
         /\ pos = 2
         /\ class_declaration = Some(ClassDeclaration_new({}, {}, Identifier(tokens[1].span)))
         /\ types = << >>
    /\ pc # "class_body" =>
         /\ pos = 3
         /\ types = << ClassDeclaration_new({}, {}, Identifier(tokens[1].span)) >>

C22_Witness ==
  /\ impl = "ParseContext"
  /\ pc = "done"
  /\ NameAndBody
  /\ Len(types) = 1
  /\ Len(errors) = 1

\* the number of tokens at the head of the stream that match the pattern
LeadingRun(pattern) ==
  CHOOSE n \in 0..Len(tokens) :
    /\ \A i \in 1..n : is(tokens[i], pattern)
    /\ n = Len(tokens) \/ ~is(tokens[n + 1], pattern)

\* the keywords of the rule the caller applied
ModifierKeywords ==
  IF entry = "visibility" THEN KeywordOf({ "Public", "Protected", "Private" })
  ELSE KeywordOf({ "Abstract", "Final", "Static" })

\* C23: visibility and class_modifiers return the set of the distinct
\* keywords at the head of the stream, whatever their order and however often
\* each is repeated, consume all of them and nothing else, and add no
\* diagnostic.
C23_ModifiersAreSetUnion ==
  (pc = "returned" /\ entry \in { "visibility", "class_modifiers" }) =>
    /\ result = Some(Ok({ tokens[i].kind : i \in 1..LeadingRun(ModifierKeywords) }))
    /\ pos = LeadingRun(ModifierKeywords)
    /\ consumed = SubSeq(tokens, 1, LeadingRun(ModifierKeywords))
    /\ errors = << >>

C23_Witness ==
  /\ pc = "returned"
  /\ entry = "visibility"
  /\ Len(tokens) = 3
  /\ << tokens[1].kind, tokens[2].kind, tokens[3].kind >> = << "Private", "Public", "Private" >>
  /\ result = Some(Ok({ "Public", "Private" }))
  /\ pos = 3

\* C24: an Ident token covers a maximal run of identifier characters: the
\* grapheme at its end and the grapheme before its start, where there is one,
\* are no identifier-part characters.
C24_IdentifierMaximalRun ==
  \A k \in 1..Len(yielded) :
    yielded[k].type = "Ident" =>
      /\ yielded[k].span.end < Len(source.graphemes) =>
           ~is_java_identifier_part(source.graphemes[yielded[k].span.end + 1].c)
      /\ yielded[k].span.start > 0 =>
           ~is_java_identifier_part(source.graphemes[yielded[k].span.start].c)

\* the number of consecutive backslashes that end at the j-th grapheme and
\* lie after the o-th
RECURSIVE BackslashRun(_, _)
BackslashRun(j, o) ==
  IF j > o /\ source.graphemes[j].c = "\\" THEN 1 + BackslashRun(j - 1, o) ELSE 0

\* the graphemes after the o-th that are a quote no backslash escapes
UnescapedQuotes(o) ==
  { j \in (o + 1)..Len(source.graphemes) :
      source.graphemes[j].c = "\"" /\ BackslashRun(j - 1, o) % 2 = 0 }

\* C25: in a string literal a backslash that is not escaped itself escapes
\* the next grapheme: the span of a terminated literal runs from its opening
\* quote through the first quote preceded by an even number of backslashes,
\* and the cursor stands right after that quote.
C25_StringEscapes ==
  \A k \in 1..Len(yielded) :
    (/\ yielded[k].type = "Literal"
     /\ yielded[k].kind = "String"
     /\ UnescapedQuotes(yielded[k].span.start + 1) # {}) =>
      /\ yielded[k].span.end \in UnescapedQuotes(yielded[k].span.start + 1)
      /\ \A j \in UnescapedQuotes(yielded[k].span.start + 1) : yielded[k].span.end <= j
      /\ (k = Len(yielded) /\ ~ended) => char_index = yielded[k].span.end

C25_Witness ==
  /\ text = << "\"", "\\", "\"", "\"" >>
  /\ yielded = << Token("Literal", "String", Span(0, 4)) >>
  /\ char_index = 4

\* the graphemes of the source at the 0-based indices from..(to - 1) are all
\* Java whitespace
WhitespaceOnly(from, to) ==
  \A g \in (from + 1)..to : is_java_whitespace(source.graphemes[g].c)

\* C26: every emitted token has 0 <= start < end <= grapheme count, the spans
\* of consecutive tokens do not overlap and are in order, and only Java
\* whitespace lies between two consecutive tokens and before the first.
C26_TokenSpans ==
  /\ \A k \in 1..Len(yielded) :
       /\ 0 <= yielded[k].span.start
       /\ yielded[k].span.start < yielded[k].span.end
       /\ yielded[k].span.end <= Len(source.graphemes)
  /\ \A k \in 1..(Len(yielded) - 1) :
       /\ yielded[k].span.end <= yielded[k + 1].span.start
       /\ WhitespaceOnly(yielded[k].span.end, yielded[k + 1].span.start)
  /\ yielded # << >> => WhitespaceOnly(0, yielded[1].span.start)

C26_Witness ==
  /\ Len(yielded) >= 2
  /\ yielded[1].span.start > 0
  /\ yielded[1].span.end < yielded[2].span.start

\* the token is a String literal that no unescaped quote closes
UnclosedString(t) ==
  /\ t.type = "Literal"
  /\ t.kind = "String"
  /\ UnescapedQuotes(t.span.start + 1) = {}

\* unless the last token yielded is an unterminated string, the cursor stands
\* at the end of its span
CursorAtEndOfLast ==
  ~UnclosedString(yielded[Len(yielded)]) => char_index = yielded[Len(yielded)].span.end

\* C27: the cursor of the lexer never moves backwards; a call of next() that
\* yields a token moves it strictly forwards, and unless the token is an
\* unterminated string the cursor then equals the end of the token's span; a
\* source of N graphemes yields at most N tokens.
C27_CursorAdvances ==
  [][ /\ char_index' >= char_index
      /\ Len(yielded') <= Len(source'.graphemes)
      /\ Len(yielded') > Len(yielded) =>
           /\ char_index' > char_index
           /\ CursorAtEndOfLast' ]_vars

C27_Witness ==
  /\ pc = "tokens"
  /\ Len(source.graphemes) = 3
  /\ Len(yielded) = 3
  /\ char_index = 3
  /\ ~ended

\* C28: once next() has returned none, at the end of the input or at a
\* grapheme that starts no token, the next call on the same iterator returns
\* none again, yields no token and leaves the iterator as it is; so does
\* every later call.
C28_ExhaustionIsStable ==
  (pc = "tokens" /\ ended) =>
    LET r == TokenIterator_next(char_index)
    IN /\ r.tok = None
       /\ r.idx = char_index
       /\ r.by \in { "end", "unknown" }

C28_Witness ==
  /\ pc = "tokens"
  /\ ended
  /\ text = << "a", "/", "a" >>
  /\ yielded = << Token("Ident", "Ident", Span(0, 1)) >>
  /\ char_index = 1

\* the number of diagnostics that expect a semicolon
SemicolonErrors(es) ==
  Cardinality({ k \in 1..Len(es) :
                  es[k].type = "UnexpectedToken" /\ es[k].expected = << ";" >> })

\* the step in which compilation_unit calls expect_semicolon
ExpectsSemicolon ==
  pc \in { "package_declaration", "import_declaration" } /\ pc' = "compilation_unit"

\* C29: expect_semicolon consumes the next token when it is a semicolon and
\* adds no diagnostic; otherwise, also at the end of the stream, it appends
\* exactly one UnexpectedToken that expects `;` and names the peeked token,
\* and consumes nothing, so the same token is the next the unit examines.
C29_ExpectSemicolon ==
  [][ ExpectsSemicolon =>
        /\ IsPrefix(errors, errors')
        /\ IF AtHead(Semicolon)
           THEN /\ pos' = pos + 1
                /\ consumed' = Append(consumed, tokens[pos + 1])
                /\ SemicolonErrors(errors') = SemicolonErrors(errors)
           ELSE /\ pos' = pos
                /\ consumed' = consumed
                /\ SemicolonErrors(errors') = SemicolonErrors(errors) + 1
                /\ errors'[Len(errors')] = UnexpectedToken(<< ";" >>, head(ctx0)) ]_vars

C29_Witness ==
  /\ impl = "Parser"
  /\ pc = "compilation_unit"
  /\ pos < Len(tokens)
  /\ is(tokens[pos + 1], KeywordOf({ "Import" }))
  /\ errors # << >>
  /\ errors[Len(errors)] = UnexpectedToken(<< ";" >>, Some(tokens[pos + 1]))

\* the step in which compilation_unit takes the result of package_declaration
PackageDeclared == pc = "package_declaration" /\ pc' = "compilation_unit"

IsNoDot(t) == ~is(t, Dot)

\* the name spelled by the tokens that follow the `package` keyword of the
\* declaration being parsed, up to the token the parser stands at
DeclaredName ==
  LET parts == SelectSeq(SubSeq(tokens, iter_start + 2, pos), IsNoDot)
  IN [ i \in 1..Len(parts) |-> Identifier(parts[i].span) ]

\* C30: the package of the unit is absent until a package declaration sets
\* it; a package declaration whose qualified name parsed sets it to that
\* name, with or without a semicolon after it, replacing an earlier one; one
\* whose qualified name failed leaves package, imports and types as they
\* are and only appends diagnostics; no other step changes the package.
C30_LastPackageWins ==
  [][ /\ pc \in { "tokens", "new" } => package = None
      /\ pc' \in { "tokens", "new" } => package' = None
      /\ ~PackageDeclared => package' = package
      /\ (PackageDeclared /\ result[1].ok) =>
           /\ package' = Some(result[1].value)
           /\ package' = Some(DeclaredName)
      /\ (PackageDeclared /\ ~result[1].ok) =>
           /\ package' = package
           /\ imports' = imports
           /\ types' = types
           /\ IsPrefix(errors, errors')
           /\ Len(errors') > Len(errors) ]_vars

C30_Witness ==
  /\ pc = "done"
  /\ Len(tokens) = 10
  /\ pos = 10
  /\ Len(imports) = 1
  /\ is(tokens[4], KeywordOf({ "Package" }))
  /\ is(tokens[6], Semicolon)
  /\ is(tokens[7], KeywordOf({ "Package" }))
  /\ package = Some(<< Identifier(tokens[8].span), Identifier(tokens[10].span) >>)

\* C31: Source::matches(offset, s) is true exactly when every grapheme of s
\* is the grapheme of the source at the corresponding place from offset on:
\* true whether the source goes on after the match or ends with it, false
\* when a grapheme differs or the source ends before s does.
C31_MatchesIsPrefixMatch ==
  matched # None =>
    (matched[1] <=>
       \A j \in 1..Len(ArgumentGraphemes[match_s[1]]) :
         /\ match_offset + j <= Len(text)
         /\ text[match_offset + j] = ArgumentGraphemes[match_s[1]][j])

C31_Witness ==
  /\ text = << "a", "b", "a" >>
  /\ match_offset = 0
  /\ match_s = Some("ab")
  /\ matched = Some(TRUE)


\* qualified_name has returned a name to import_declaration
ImportNameParsed == pc = "import_declaration" /\ result[1].ok

\* C32: import_declaration never aborts: a name that qualified_name returns
\* to it has at least one segment, and the span of its last segment resolves
\* to text, so neither expect() fails.
C32_ImportDeclarationNeverAborts ==
  /\ pc # "panic"
  /\ ImportNameParsed =>
       /\ result[1].value # << >>
       /\ resolve_span(result[1].value[Len(result[1].value)].span) # None

\* the number of NotImplemented diagnostics
NotImplementedErrors(es) ==
  Cardinality({ k \in 1..Len(es) : es[k].type = "NotImplemented" })

\* the number of class bodies the parser has entered
ClassBodies == Len(types) + (IF class_declaration # None THEN 1 ELSE 0)

\* C34: once a member attempt of a class body has ended with NotImplemented,
\* the rest of the body is not read as further members: a class body
\* contributes at most one NotImplemented diagnostic.
C34_OneNotImplementedPerBody == NotImplementedErrors(errors) <= ClassBodies

\* no class the parser has built or is building has a member
NoMembers ==
  /\ \A k \in 1..Len(types) : types[k].members = << >>
  /\ class_declaration # None => class_declaration[1].members = << >>

\* the step is one call of class_member in the body loop of type_declaration
MemberAttempt == pc = "class_body" /\ ~AtHead(RightCurly) /\ pc' = "class_body"

\* C35: class_member never returns a member: each call ends in an
\* UnexpectedToken that expects an identifier or in NotImplemented, which
\* becomes the last diagnostic of the unit, and every class has an empty
\* member list.
C35_NoClassMembers ==
  [][ /\ NoMembers'
      /\ MemberAttempt =>
           /\ Len(errors') > Len(errors)
           /\ IsPrefix(errors, errors')
           /\ \/ errors'[Len(errors')] = NotImplemented(None)
              \/ /\ errors'[Len(errors')].type = "UnexpectedToken"
                 /\ errors'[Len(errors')].expected = << "identifier" >>
                 /\ Len(errors') = Len(errors) + 1 ]_vars

C35_Witness ==
  /\ pc = "done"
  /\ Len(tokens) = 9
  /\ pos = 9
  /\ Len(types) = 1
  /\ types[1].members = << >>
  /\ errors = << NotImplemented(None) >>

\* C33: resolve_span is total: for every span, the empty span (0, 0) and
\* spans with start > end included, it returns a substring or none and does
\* not abort; the index end - 1 it computes is never below zero.
C33_ResolveSpanTotal ==
  /\ pc # "overflow"
  /\ (span_arg # None /\ translate_index(span_arg[1].start) # None) =>
       span_arg[1].end - 1 >= 0

\* C36: next_identifier always finds a character at the cursor: next() calls
\* it only when the cursor is inside the input, and a keyword, separator or
\* literal probe that finds nothing leaves the cursor where it was; so the
\* abort for a missing character is never reached.
C36_IdentifierProbeHasCharacter ==
  pc = "tokens" =>
    LET at == Cursor
        k == next_keyword(at)
        s == next_separator(at)
        l == next_literal(at)
    IN /\ TokenIterator_next(char_index).by # "panic"
       /\ at < Len(source.graphemes) =>
            /\ char_at(at) # None
            /\ k.tok = None => k.idx = at
            /\ s.tok = None => s.idx = at
            /\ l.tok = None => l.idx = at

C36_Witness ==
  /\ pc = "tokens"
  /\ ended
  /\ text = << ";", "=" >>
  /\ Len(yielded) = 1
  /\ char_index = 1
  /\ TokenIterator_next(char_index).by = "unknown"
=============================================================================
